---- MODULE Spec2Model ----
(***************************************************************************)
(* Model of the AAIT sales dashboard: the data layer's sync engine         *)
(* (src/src/data.js), the application callback (src/src/main.js) and the   *)
(* notification engine (src/unnamed/part_000, the file-based-audio         *)
(* notifications.js).                                                      *)
(*                                                                         *)
(* JavaScript strings are sequences of one-character strings.  An Arabic   *)
(* letter is written by its Unicode name in capitals ("TEH", "MEEM", ...); *)
(* the naming is injective, so substring and equality tests are preserved. *)
(***************************************************************************)
EXTENDS Integers, Sequences, FiniteSets, TLC

VARIABLES
    \* ---- browser / environment
    clock,              \* Date.now(), in abstract clock ticks
    storedData,         \* localStorage[STORAGE_KEY_DATA]
    \* ---- data.js, module level and startAutoSync closures
    syncIntervalId,     \* 0 = null, else the session whose setInterval is live
    nSessions,          \* number of startAutoSync calls so far
    latestRequestTime,  \* per session (closure variable)
    lastKnownMeetings,  \* per session (closure variable)
    polls,              \* poll() invocations suspended at an await
    nPolls,             \* number of poll() invocations so far
    newestSeq,          \* per session, the number of its most recently started poll
    nManual,            \* number of sync button presses so far
    \* ---- main.js
    currentMeetings,    \* the published snapshot
    \* ---- what the last step did (observations, never read by the program)
    fetchEvent,         \* the fetchMeetings() call completed by the step
    callbackEvent,      \* the callback(...) call made by the step
    pollEvent,          \* how the poll() continuation run by the step ended
    \* ---- notifications.js (part_000)
    wall,               \* local wall clock, in half minutes since day 0, 00:00
    triggeredNotifications,
    lastNotifiedDate,
    firedToday,         \* (id, threshold) pairs alerted since local midnight
    firedAgain,         \* the pairs alerted more than once since local midnight
    alertEvent,         \* what the last tick did: the reset and the triggerAlert calls
    age,                \* ticks that have read the current snapshot (capped)
    \* ---- settings, timers and audio
    settingsItem,       \* localStorage[STORAGE_KEY_SETTINGS]
    pollDelay,          \* the delay of the live setInterval(poll, intervalMs), in ms
    audios,             \* the Audio elements created by playNotificationSound
    audioNow,           \* time of the audio runs, in seconds
    effects,            \* the side effects of the last triggerAlert call, in order
    timers,             \* the live setInterval timers of data.js and notifications.js
    \* ---- the last call of a pure function of data.js (name, argument, result)
    call

syncVars == <<clock, storedData, syncIntervalId, nSessions, latestRequestTime,
              lastKnownMeetings, polls, nPolls, newestSeq, nManual, fetchEvent, callbackEvent,
              pollEvent>>
alertVars == <<wall, triggeredNotifications, lastNotifiedDate, firedToday,
               firedAgain, alertEvent, age>>
appVars == <<settingsItem, pollDelay, audios, audioNow, effects, timers, call>>
vars == <<syncVars, currentMeetings, alertVars, appVars>>

-----------------------------------------------------------------------------
(* Strings *)

UpperChars == <<"A","B","C","D","E","F","G","H","I","J","K","L","M",
                "N","O","P","Q","R","S","T","U","V","W","X","Y","Z">>
LowerChars == <<"a","b","c","d","e","f","g","h","i","j","k","l","m",
                "n","o","p","q","r","s","t","u","v","w","x","y","z">>

\* String.prototype.toLowerCase, one character
LowerChar(c) ==
    IF \E i \in DOMAIN UpperChars : UpperChars[i] = c
    THEN LowerChars[CHOOSE i \in DOMAIN UpperChars : UpperChars[i] = c]
    ELSE c

ToLowerCase(s) == [i \in DOMAIN s |-> LowerChar(s[i])]

IsSpace(c) == c \in {" ", "\t", "\r", "\n"}

\* String.prototype.trim
Trim(s) ==
    LET keep == {i \in DOMAIN s : ~IsSpace(s[i])}
    IN  IF keep = {} THEN <<>>
        ELSE LET lo == CHOOSE i \in keep : \A j \in keep : i <= j
                 hi == CHOOSE i \in keep : \A j \in keep : j <= i
             IN  SubSeq(s, lo, hi)

\* String.prototype.includes; also RegExp.test for a literal pattern
Includes(s, pat) ==
    \E i \in 1..(Len(s) - Len(pat) + 1) : SubSeq(s, i, i + Len(pat) - 1) = pat

\* /p1|p2|.../i.test(s) for literal alternatives written in lower case
TestAnyI(pats, s) == LET l == ToLowerCase(s) IN \E p \in pats : Includes(l, p)

DigitChars == <<"0","1","2","3","4","5","6","7","8","9">>
IsDigit(c) == \E i \in DOMAIN DigitChars : DigitChars[i] = c
DigitValue(c) == (CHOOSE i \in DOMAIN DigitChars : DigitChars[i] = c) - 1

RECURSIVE DecimalValue(_)
DecimalValue(s) ==
    IF s = <<>> THEN 0
    ELSE 10 * DecimalValue(SubSeq(s, 1, Len(s) - 1)) + DigitValue(s[Len(s)])

\* Number(x) and isNaN: a number is a record, NaN has nan = TRUE
NaN == [nan |-> TRUE, value |-> 0]
\* Number(s) for a string without sign, point or exponent: blank is 0
Number(s) ==
    LET t == Trim(s)
    IN  IF \A i \in DOMAIN t : IsDigit(t[i])
        THEN [nan |-> FALSE, value |-> DecimalValue(t)]
        ELSE NaN

\* String.prototype.split for a one-character separator
RECURSIVE Split(_, _)
Split(s, sep) ==
    LET at == {i \in DOMAIN s : s[i] = sep}
    IN  IF at = {} THEN <<s>>
        ELSE LET i == CHOOSE k \in at : \A j \in at : k <= j
             IN  <<SubSeq(s, 1, i - 1)>> \o Split(SubSeq(s, i + 1, Len(s)), sep)

-----------------------------------------------------------------------------
(* Status texts and their classification (data.js) *)

S_EMPTY      == <<>>
S_TAMM       == <<"TEH","MEEM">>                          \* "تم"
S_LAM_YATIM  == <<"LAM","MEEM"," ","YEH","TEH","MEEM">>   \* "لم يتم"
S_MULGHI     == <<"MEEM","LAM","GHAIN","YEH">>            \* "ملغي"
S_DONE_EN    == <<"D","o","n","e">>                       \* "Done"
S_KHARIJI    == <<"KHAH","ALEF","REH","JEEM","YEH">>      \* "خارجي"
S_HUDURI     == <<"HAH","DAD","WAW","REH","YEH">>         \* "حضوري"

\* /لم يتم|not|fail/i
NotDonePatterns == { S_LAM_YATIM, <<"n","o","t">>, <<"f","a","i","l">> }
\* /تم|نجاح|complete|done|finish/i
DonePatterns ==
    { S_TAMM, <<"NOON","JEEM","ALEF","HAH">>,
      <<"c","o","m","p","l","e","t","e">>, <<"d","o","n","e">>,
      <<"f","i","n","i","s","h">> }
\* /ملغ|لم يتم|cancel|postpone|مؤجل/i
CancelPatterns ==
    { <<"MEEM","LAM","GHAIN">>, S_LAM_YATIM, <<"c","a","n","c","e","l">>,
      <<"p","o","s","t","p","o","n","e">>, <<"MEEM","WAW_HAMZA","JEEM","LAM">> }

\* an isDone without the negative test
isDoneNoNegative(meeting) ==
    IF meeting.status = <<>> THEN FALSE
    ELSE TestAnyI(DonePatterns, Trim(meeting.status))

\* isDone(meeting); the empty text stands for every falsy status
isDone(meeting) ==
    IF meeting.status = <<>> THEN FALSE
    ELSE LET s == Trim(meeting.status)
         IN  IF TestAnyI(NotDonePatterns, s) THEN FALSE
             ELSE TestAnyI(DonePatterns, s)

isCancelled(meeting) ==
    IF meeting.status = <<>> THEN FALSE
    ELSE TestAnyI(CancelPatterns, ToLowerCase(Trim(meeting.status)))

-----------------------------------------------------------------------------
(* Local time (Date getters) over the wall clock *)

MinutesPerDay == 24 * 60

\* String(n).padStart(2, '0') for 0 <= n <= 99
Pad2(n) == <<DigitChars[(n \div 10) + 1], DigitChars[(n % 10) + 1]>>

DayOf(w)        == w \div (2 * MinutesPerDay)
MinuteOfDay(w)  == (w \div 2) % MinutesPerDay
\* now.getHours() * 60 + now.getMinutes()
NowMinutes(w)   == ((MinuteOfDay(w) \div 60) * 60) + (MinuteOfDay(w) % 60)

\* formatTodayDate(): `${y}/${m}/${d}` of the local date
DateStrings == <<"2025/01/05", "2025/01/06", "2025/01/07", "2025/01/08">>
formatTodayDate(w) == DateStrings[DayOf(w) + 1]

\* new Date().toDateString() of the local date
DateStringsLong == <<"Sun Jan 05 2025", "Mon Jan 06 2025", "Tue Jan 07 2025",
                     "Wed Jan 08 2025">>
toDateString(w) == DateStringsLong[DayOf(w) + 1]

-----------------------------------------------------------------------------
(* Meetings *)

Meeting(id, date, time, status, team) ==
    [id |-> id, date |-> date, time |-> time, status |-> status, team |-> team]

T_SALES == <<"FEH","REH","YEH","QAF">>       \* "فريق ..." (no audio prefix)
T_ADMIN == <<"ALEF","LAM","ALEF","DAL">>     \* "الإدارة" (no audio prefix)

\* makeFutureTime(offsetMinutes) inside getDemoMeetings
makeFutureTime(w, offsetMinutes) ==
    LET m == (MinuteOfDay(w) + offsetMinutes) % MinutesPerDay
    IN  Pad2(m \div 60) \o <<":">> \o Pad2(m % 60)

getDemoMeetings(w) ==
    << Meeting("m-demo-1", formatTodayDate(w), makeFutureTime(w, 10), S_KHARIJI, T_SALES),
       Meeting("m-demo-2", formatTodayDate(w), makeFutureTime(w, 45), S_HUDURI, T_ADMIN) >>

-----------------------------------------------------------------------------
(* parseCSV, forwardFillDates and parseTimeStr (data.js) *)

\* a scan that takes every quote as a toggle
ScanLineNoEscape(line, i, current, inQuotes, fields) ==
    LET RECURSIVE Scan(_, _, _, _)
        Scan(k, cur, inQ, fs) ==
            IF k > Len(line) THEN Append(fs, Trim(cur))
            ELSE IF line[k] = "\"" THEN Scan(k + 1, cur, ~inQ, fs)
            ELSE IF line[k] = "," /\ ~inQ THEN Scan(k + 1, <<>>, inQ, Append(fs, Trim(cur)))
            ELSE Scan(k + 1, Append(cur, line[k]), inQ, fs)
    IN  Scan(i, current, inQuotes, fields)

\* The scan of one line from its i-th character on (the inner for loop and the
\* push after it)
RECURSIVE ScanLine(_, _, _, _, _)
ScanLine(line, i, current, inQuotes, fields) ==
    IF i > Len(line) THEN Append(fields, Trim(current))
    ELSE IF line[i] = "\""
         THEN IF inQuotes /\ i + 1 <= Len(line) /\ line[i + 1] = "\""
              THEN ScanLine(line, i + 2, Append(current, "\""), inQuotes, fields)
              ELSE ScanLine(line, i + 1, current, ~inQuotes, fields)
    ELSE IF line[i] = "," /\ ~inQuotes
         THEN ScanLine(line, i + 1, <<>>, inQuotes, Append(fields, Trim(current)))
    ELSE ScanLine(line, i + 1, Append(current, line[i]), inQuotes, fields)

\* parseCSV(csvText)
parseCSV(csvText) ==
    LET lines == Split(Trim(csvText), "\n")
    IN  [k \in 1..Len(lines) |-> ScanLine(lines[k], 1, <<>>, FALSE, <<>>)]

\* /\d/.test(f) && (/\//.test(f) || /-/.test(f)) for a non-empty f
IsDateLike(f) ==
    /\ f # <<>>
    /\ \E i \in DOMAIN f : IsDigit(f[i])
    /\ \E i \in DOMAIN f : f[i] = "/" \/ f[i] = "-"

\* (row[0] || '').trim()
DateField(row) == Trim(IF Len(row) >= 1 THEN row[1] ELSE <<>>)

\* a fill that writes each row's own date field
FillNoCarry(rows, i, currentDate) ==
    [k \in 1..(Len(rows) - i + 1) |->
        <<DateField(rows[i + k - 1])>> \o SubSeq(rows[i + k - 1], 2, Len(rows[i + k - 1]))]

\* rows.map(...) from the i-th row on, with the running date so far
RECURSIVE FillFrom(_, _, _)
FillFrom(rows, i, currentDate) ==
    IF i > Len(rows) THEN <<>>
    ELSE LET row  == rows[i]
             date == IF IsDateLike(DateField(row)) THEN DateField(row) ELSE currentDate
         IN  << <<date>> \o SubSeq(row, 2, Len(row)) >> \o FillFrom(rows, i + 1, date)

\* forwardFillDates(rows)
forwardFillDates(rows) == FillFrom(rows, 1, <<>>)

\* /pm|م|مساء/i and /am|ص|صباح/i
PmPatterns == { <<"p","m">>, <<"MEEM">>, <<"MEEM","SEEN","ALEF","HAMZA">> }
AmPatterns == { <<"a","m">>, <<"SAD">>, <<"SAD","BEH","ALEF","HAH">> }

\* a conversion whose heuristic adds 12 to every hour below 12
ConvertHourBelow12(h, isPM, isAM) ==
    IF ~isPM /\ ~isAM
    THEN IF h < 12 THEN h + 12 ELSE h
    ELSE LET h1 == IF isPM /\ h < 12 THEN h + 12 ELSE h
         IN  IF isAM /\ h1 = 12 THEN 0 ELSE h1

\* The hour conversion of parseTimeStr ("The 10 AM Rule" and the 12-hour rule)
ConvertHour(h, isPM, isAM) ==
    IF ~isPM /\ ~isAM
    THEN IF h < 10 THEN h + 12 ELSE h
    ELSE LET h1 == IF isPM /\ h < 12 THEN h + 12 ELSE h
         IN  IF isAM /\ h1 = 12 THEN 0 ELSE h1

\* parseTimeStr(timeStr)
parseTimeStr(timeStr) ==
    IF timeStr = <<>> THEN <<>>
    ELSE LET trimmed == Trim(timeStr)
             isPM    == TestAnyI(PmPatterns, trimmed)
             isAM    == TestAnyI(AmPatterns, trimmed)
             cleaned == SelectSeq(trimmed, LAMBDA ch : IsDigit(ch) \/ ch = ":")
             parts   == Split(cleaned, ":")
         IN  IF Len(parts) = 2 /\ Len(parts[1]) \in {1, 2} /\ Len(parts[2]) = 2
             THEN Pad2(ConvertHour(DecimalValue(parts[1]), isPM, isAM))
                      \o <<":">> \o parts[2]
             ELSE trimmed

\* String.prototype.split(/[/\-]/)
RECURSIVE SplitAny(_, _)
SplitAny(s, seps) ==
    LET at == {i \in DOMAIN s : s[i] \in seps}
    IN  IF at = {} THEN <<s>>
        ELSE LET i == CHOOSE k \in at : \A j \in at : k <= j
             IN  <<SubSeq(s, 1, i - 1)>> \o SplitAny(SubSeq(s, i + 1, Len(s)), seps)

\* s.padStart(2, '0')
PadStart2(s) ==
    IF Len(s) >= 2 THEN s ELSE IF Len(s) = 1 THEN <<"0">> \o s ELSE <<"0", "0">>

\* a normalizeDate that reads a year in last place as M/D/YYYY
normalizeDateMonthFirst(dateStr) ==
    IF dateStr = <<>> THEN <<>>
    ELSE LET parts == SplitAny(Trim(dateStr), {"/", "-"})
         IN  IF Len(parts) = 3
             THEN LET p0 == Trim(parts[1])
                      p1 == Trim(parts[2])
                      p2 == Trim(parts[3])
                  IN  IF Len(p0) = 4
                      THEN p0 \o <<"/">> \o PadStart2(p1) \o <<"/">> \o PadStart2(p2)
                      ELSE IF Len(p2) = 4
                      THEN p2 \o <<"/">> \o PadStart2(p0) \o <<"/">> \o PadStart2(p1)
                      ELSE Trim(dateStr)
             ELSE Trim(dateStr)

\* normalizeDate(dateStr)
normalizeDate(dateStr) ==
    IF dateStr = <<>> THEN <<>>
    ELSE LET parts == SplitAny(Trim(dateStr), {"/", "-"})
         IN  IF Len(parts) = 3
             THEN LET p0 == Trim(parts[1])
                      p1 == Trim(parts[2])
                      p2 == Trim(parts[3])
                  IN  IF Len(p0) = 4
                      THEN p0 \o <<"/">> \o PadStart2(p1) \o <<"/">> \o PadStart2(p2)
                      ELSE IF Len(p2) = 4
                      THEN p2 \o <<"/">> \o PadStart2(p1) \o <<"/">> \o PadStart2(p0)
                      ELSE Trim(dateStr)
             ELSE Trim(dateStr)

\* (row[k] || '').trim() for the k-th column, counted from 0
Cell(row, k) == Trim(IF Len(row) >= k + 1 THEN row[k + 1] ELSE <<>>)

\* a header test that allows no populated column beside the date
isDateHeaderRowStrict(row) ==
    /\ Cell(row, 0) # <<>>
    /\ \E i \in DOMAIN Cell(row, 0) : IsDigit(Cell(row, 0)[i])
    /\ Cardinality({k \in 1..(Len(row) - 1) : Cell(row, k) # <<>>}) < 1

\* isDateHeaderRow(row)
isDateHeaderRow(row) ==
    /\ Cell(row, 0) # <<>>
    /\ \E i \in DOMAIN Cell(row, 0) : IsDigit(Cell(row, 0)[i])
    /\ Cardinality({k \in 1..(Len(row) - 1) : Cell(row, k) # <<>>}) <= 1

\* rows.slice() without dropping row 0
DataRowsAll(rows) == rows

\* rows.slice(1)
DataRows(rows) == SubSeq(rows, 2, Len(rows))

\* The positions (in filledRows) of the rows the loop does not skip, in order
Retained(filledRows) ==
    SelectSeq([i \in 1..Len(filledRows) |-> i],
              LAMBDA i : /\ ~isDateHeaderRow(filledRows[i])
                         /\ ~(Cell(filledRows[i], 1) = <<>> /\ Cell(filledRows[i], 3) = <<>>))

\* an id taken from the row's position among all rows
MeetingIdByRow(k, i) == "m-" \o ToString(i)

\* `m-${id}` of the k-th push, made from the row at position i
MeetingId(k, i) == "m-" \o ToString(k)

\* The object pushed for a row
MeetingOfRow(id, row) ==
    [id |-> id,
     date |-> normalizeDate(Cell(row, 0)),
     project |-> Cell(row, 1),
     team |-> Cell(row, 2),
     time |-> parseTimeStr(Cell(row, 3)),
     via |-> Cell(row, 4),
     status |-> Cell(row, 5),
     ticketUrl |-> Cell(row, 6),
     meetUrl |-> Cell(row, 7),
     clientStatus |-> Cell(row, 8)]

\* mapRowsToMeetings(rows)
mapRowsToMeetings(rows) ==
    LET filledRows == forwardFillDates(DataRows(rows))
        kept       == Retained(filledRows)
    IN  [k \in 1..Len(kept) |-> MeetingOfRow(MeetingId(k, kept[k]), filledRows[kept[k]])]

-----------------------------------------------------------------------------
(* The feed, localStorage and fetchMeetings (data.js) *)

NULL == "<null>"

\* Outcome of a call that may throw
Returned(v)  == [threw |-> FALSE, message |-> "", value |-> v]
Threw(msg)   == [threw |-> TRUE, message |-> msg, value |-> <<>>]

\* Meetings served by the feed in the sync engine's runs: ids are assigned by
\* position (m-1, m-2); the first meeting is active, done or cancelled.
T_2352 == <<"2","3",":","5","2">>
FeedMeeting(k, st) ==
    Meeting(IF k = 1 THEN "m-1" ELSE "m-2", DateStrings[1], T_2352, st, T_SALES)
FeedSnapshots ==
    { <<>>, <<FeedMeeting(1, S_EMPTY)>>, <<FeedMeeting(1, S_TAMM)>>,
      <<FeedMeeting(1, S_MULGHI)>>, <<FeedMeeting(1, S_TAMM), FeedMeeting(2, S_EMPTY)>> }

\* What the network gives fetch(): a rejection, or a response with a status
\* and a body.  A body is its leading characters and the meetings its rows map to.
CsvHead  == <<"d","a","t","e",",">>
HtmlHead == <<" ","\n","<","!","D","O","C","T","Y","P","E">>
NetResponse(kind, ok, head, meetings) ==
    [kind |-> kind, ok |-> ok, head |-> head, meetings |-> meetings]
Responses ==
    { NetResponse("reject", FALSE, <<>>, <<>>),
      NetResponse("response", FALSE, HtmlHead, <<>>),
      NetResponse("response", TRUE, HtmlHead, <<>>) }
    \cup { NetResponse("response", TRUE, CsvHead, f) : f \in FeedSnapshots }

MSG_NETWORK == "Failed to fetch"
MSG_STATUS  == "HTTP status not ok"
MSG_HTML    == "HTML Response"

\* fetchCSV testing the body for '<' without trimming it
fetchCSVNoTrim(resp) ==
    IF resp.kind = "reject" THEN Threw(MSG_NETWORK)
    ELSE IF ~resp.ok THEN Threw(MSG_STATUS)
    ELSE IF Len(resp.head) > 0 /\ resp.head[1] = "<" THEN Threw(MSG_HTML)
    ELSE Returned(resp.meetings)

fetchCSV(resp) ==
    IF resp.kind = "reject" THEN Threw(MSG_NETWORK)
    ELSE IF ~resp.ok THEN Threw(MSG_STATUS)
    ELSE LET text == Trim(resp.head)
         IN  IF Len(text) > 0 /\ text[1] = "<" THEN Threw(MSG_HTML)
             ELSE Returned(resp.meetings)

\* localStorage[STORAGE_KEY_DATA]: absent, JSON.stringify(meetings), or text
\* that is not JSON
NoItem        == [kind |-> "none", value |-> <<>>]
JsonItem(ms)  == [kind |-> "json", value |-> ms]
CorruptItem   == [kind |-> "corrupt", value |-> <<>>]

\* saveMeetings: setItem may throw (quota, storage disabled); the throw is caught
saveMeetings(data, meetings, storageOk) ==
    IF storageOk THEN JsonItem(meetings) ELSE data

\* loadCachedMeetings: null when absent, when getItem throws or when JSON.parse throws
JsNull       == [isNull |-> TRUE, value |-> <<>>]
JsValue(v)   == [isNull |-> FALSE, value |-> v]
loadCachedMeetings(data, storageOk) ==
    IF ~storageOk THEN JsNull
    ELSE IF data.kind = "none" THEN JsNull
    ELSE IF data.kind = "corrupt" THEN JsNull
    ELSE JsValue(data.value)

SyncResult(meetings, fromCache, error) ==
    [meetings |-> meetings, fromCache |-> fromCache, error |-> error]

\* the fallback choosing the demo data for an empty cached array
CachedOrDemoNonEmpty(cached, w) ==
    IF cached.isNull \/ Len(cached.value) = 0 THEN getDemoMeetings(w) ELSE cached.value

\* cached || getDemoMeetings(): an array, even an empty one, is truthy
CachedOrDemo(cached, w) == IF cached.isNull THEN getDemoMeetings(w) ELSE cached.value

MSG_QUOTA == "QuotaExceededError"

\* fetchMeetings with a saveMeetings that lets setItem's exception through
fetchMeetingsSaveThrows(resp, data, storageOk, w) ==
    LET csv == fetchCSV(resp)
    IN  IF ~csv.threw /\ storageOk
        THEN [rejected |-> FALSE,
              result   |-> SyncResult(csv.value, FALSE, NULL),
              data     |-> JsonItem(csv.value)]
        ELSE [rejected |-> FALSE,
              result   |-> SyncResult(CachedOrDemo(loadCachedMeetings(data, storageOk), w),
                                      TRUE, IF csv.threw THEN csv.message ELSE MSG_QUOTA),
              data     |-> data]

\* The promise fetchMeetings() returns: settled value and the storage it leaves
fetchMeetings(resp, data, storageOk, w) ==
    LET csv == fetchCSV(resp)
    IN  IF ~csv.threw
        THEN [rejected |-> FALSE,
              result   |-> SyncResult(csv.value, FALSE, NULL),
              data     |-> saveMeetings(data, csv.value, storageOk)]
        ELSE [rejected |-> FALSE,
              result   |-> SyncResult(CachedOrDemo(loadCachedMeetings(data, storageOk), w),
                                      TRUE, csv.message),
              data     |-> data]

-----------------------------------------------------------------------------
(* handleSyncResult (main.js) *)

\* !error
NoError(error) == error = NULL \/ error = ""

\* handleSyncResult without its SYNC STABILITY CHECK
handleSyncResultNoStabilityCheck(result, cur, domOk) ==
    IF NoError(result.error)
    THEN [threw |-> ~domOk, currentMeetings |-> result.meetings]
    ELSE [threw |-> ~domOk, currentMeetings |-> cur]

\* The value of currentMeetings after handleSyncResult, and whether the handler
\* threw: the status text element is dereferenced without a null check.
handleSyncResult(result, cur, domOk) ==
    IF NoError(result.error)
    THEN IF Len(result.meetings) = 0 /\ Len(cur) > 0 /\ ~result.fromCache
         THEN [threw |-> FALSE, currentMeetings |-> cur]
         ELSE [threw |-> ~domOk, currentMeetings |-> result.meetings]
    ELSE [threw |-> ~domOk, currentMeetings |-> cur]

-----------------------------------------------------------------------------
(* Settings (data.js) and the settings dialog (main.js) *)

\* JavaScript values of the settings object.  A number is a record as for
\* Number(); minutes are counted in hundredths (0.25 is 25).
JsValue3(t, b, n, s) == [t |-> t, b |-> b, n |-> n, s |-> s]
Undefined   == JsValue3("undefined", FALSE, NaN, <<>>)
JsNullValue == JsValue3("null", FALSE, NaN, <<>>)
JsBool(b)   == JsValue3("boolean", b, NaN, <<>>)
JsNum(h)    == JsValue3("number", FALSE, [nan |-> FALSE, value |-> h], <<>>)
JsNumNaN    == JsValue3("number", FALSE, NaN, <<>>)
JsStr(s)    == JsValue3("string", FALSE, NaN, s)

\* ToBoolean
Truthy(x) ==
    CASE x.t = "boolean" -> x.b
      [] x.t = "number"  -> ~x.n.nan /\ x.n.value # 0
      [] x.t = "string"  -> x.s # <<>>
      [] OTHER           -> FALSE

\* The digits a string starts with
DigitRun(s) ==
    LET stop == {i \in DOMAIN s : ~IsDigit(s[i])}
    IN  IF stop = {} THEN s
        ELSE SubSeq(s, 1, (CHOOSE i \in stop : \A j \in stop : i <= j) - 1)

\* String.prototype.trimStart
TrimStart(s) ==
    LET keep == {i \in DOMAIN s : ~IsSpace(s[i])}
    IN  IF keep = {} THEN <<>>
        ELSE SubSeq(s, CHOOSE i \in keep : \A j \in keep : i <= j, Len(s))

\* parseFloat of a string: leading blanks, a sign, digits, a point and digits
\* (two decimals are kept); anything after is ignored; no digit at all is NaN
ParseFloatString(s) ==
    LET t    == TrimStart(s)
        neg  == t # <<>> /\ t[1] = "-"
        u    == IF t # <<>> /\ t[1] \in {"-", "+"} THEN Tail(t) ELSE t
        ip   == DigitRun(u)
        rest == SubSeq(u, Len(ip) + 1, Len(u))
        fp   == IF rest # <<>> /\ rest[1] = "." THEN DigitRun(Tail(rest)) ELSE <<>>
        mag  == DecimalValue(ip) * 100 + DecimalValue(SubSeq(fp \o <<"0", "0">>, 1, 2))
    IN  IF ip = <<>> /\ fp = <<>> THEN NaN
        ELSE [nan |-> FALSE, value |-> IF neg THEN 0 - mag ELSE mag]

\* parseFloat(x): x is converted to a string first ("null", "undefined",
\* "true" and "NaN" have no leading digit)
parseFloat(x) ==
    CASE x.t = "number" -> x.n
      [] x.t = "string" -> ParseFloatString(x.s)
      [] OTHER          -> NaN

SettingsKeys == {"sheetId", "refreshInterval", "soundEnabled"}

\* DEFAULT_SETTINGS
DEFAULT_SETTINGS ==
    [sheetId |-> JsStr(<<>>), refreshInterval |-> JsNum(50), soundEnabled |-> JsBool(TRUE)]

\* localStorage[STORAGE_KEY_SETTINGS]: absent, the JSON of an object (a key
\* the object lacks is Undefined), or text that is not JSON
NoSettingsItem      == [kind |-> "none", object |-> [k \in SettingsKeys |-> Undefined]]
CorruptSettingsItem == [kind |-> "corrupt", object |-> [k \in SettingsKeys |-> Undefined]]
SettingsItem(o)     == [kind |-> "json", object |-> o]

\* getSettings(): { ...DEFAULT_SETTINGS, ...JSON.parse(stored) }, or the defaults
getSettings(item) ==
    IF item.kind = "json"
    THEN [k \in SettingsKeys |->
             IF item.object[k].t = "undefined" THEN DEFAULT_SETTINGS[k] ELSE item.object[k]]
    ELSE DEFAULT_SETTINGS

\* JSON.stringify of a property value: NaN is written as null, undefined drops the key
Stringified(v) == IF v.t = "number" /\ v.n.nan THEN JsNullValue ELSE v

\* an updateSettings that writes newSettings over the stored object
updateSettingsOverwrite(item, newSettings) ==
    SettingsItem([k \in SettingsKeys |->
                     IF k \in DOMAIN newSettings THEN Stringified(newSettings[k])
                     ELSE Undefined])

\* updateSettings(newSettings): { ...current, ...newSettings } written back
updateSettings(item, newSettings) ==
    LET current == getSettings(item)
        updated == [k \in SettingsKeys |->
                       IF k \in DOMAIN newSettings THEN newSettings[k] ELSE current[k]]
    IN  SettingsItem([k \in SettingsKeys |-> Stringified(updated[k])])

\* intervalMs without the floor
IntervalMsNoFloor(settings) ==
    LET x == parseFloat(settings.refreshInterval)
    IN  IF x.nan THEN NaN ELSE [nan |-> FALSE, value |-> x.value * 600]

\* Math.max(0.25, parseFloat(refreshInterval)) * 60 * 1000: Math.max with a
\* NaN argument is NaN
IntervalMs(settings) ==
    LET x == parseFloat(settings.refreshInterval)
    IN  IF x.nan THEN NaN
        ELSE [nan |-> FALSE, value |-> (IF x.value > 25 THEN x.value ELSE 25) * 600]

\* The delay setInterval uses for its second argument: NaN is taken as 0
SetIntervalDelay(ms) == IF ms.nan THEN 0 ELSE ms.value

\* DEFAULT_PUBLISH_KEY (its first characters)
DEFAULT_PUBLISH_KEY == <<"2","P","A","C","X","-","1","v","R","M">>
PublishPrefix == <<"2","P","A","C","X","-">>

\* String.prototype.startsWith
StartsWith(s, prefix) == Len(s) >= Len(prefix) /\ SubSeq(s, 1, Len(prefix)) = prefix

\* an activeKey that takes the prefix anywhere in the id
activeKeyIncludes(settings) ==
    IF Truthy(settings.sheetId) /\ Includes(settings.sheetId.s, PublishPrefix)
    THEN settings.sheetId.s ELSE DEFAULT_PUBLISH_KEY

\* (sheetId && sheetId.startsWith('2PACX-')) ? sheetId : DEFAULT_PUBLISH_KEY,
\* for a sheetId that is a string, null or absent
activeKey(settings) ==
    IF Truthy(settings.sheetId) /\ StartsWith(settings.sheetId.s, PublishPrefix)
    THEN settings.sheetId.s ELSE DEFAULT_PUBLISH_KEY

-----------------------------------------------------------------------------
(* startAutoSync / stopAutoSync / poll (data.js) *)

MaxSessions == 2    \* startAutoSync calls explored
MaxPolls    == 2    \* poll() invocations explored
MaxManual   == 1    \* sync button presses explored

Sessions == 1..MaxSessions

NoEvent == [type |-> "none"]

\* isReverting with the negation of isCancelled lost
isRevertingLostNegation(lastKnown, meetings) ==
    \E i \in DOMAIN meetings :
        LET newM == meetings[i]
            same == {j \in DOMAIN lastKnown : lastKnown[j].id = newM.id}
        IN  /\ same # {}
            /\ LET oldM == lastKnown[CHOOSE j \in same : \A k \in same : j <= k]
               IN  isDone(oldM) /\ ~isDone(newM) /\ isCancelled(newM)

\* some(newM => { oldM = lastKnown.find(m => m.id === newM.id); ... })
isReverting(lastKnown, meetings) ==
    \E i \in DOMAIN meetings :
        LET newM == meetings[i]
            same == {j \in DOMAIN lastKnown : lastKnown[j].id = newM.id}
        IN  /\ same # {}
            /\ LET oldM == lastKnown[CHOOSE j \in same : \A k \in same : j <= k]
               IN  isDone(oldM) /\ ~isDone(newM) /\ ~isCancelled(newM)

\* STALE CHECK: thisRequestTime !== latestRequestTime
isStale(thisRequestTime, latest) == thisRequestTime # latest

\* poll without its try/catch
pollNoCatch(threw) == [escaped |-> threw, caught |-> FALSE]

\* try { ... } catch (err) { console.error(...) } around the body of poll
pollCatch(threw) == [escaped |-> FALSE, caught |-> threw]

Poll(s, t, n, pc) == [session |-> s, thisRequestTime |-> t, seq |-> n, pc |-> pc]

\* The first lines of poll(): timestamp the request and call fetchMeetings()
BeginPoll(s, t) ==
    /\ nPolls' = nPolls + 1
    /\ latestRequestTime' = [latestRequestTime EXCEPT ![s] = t]
    /\ polls' = polls \cup { Poll(s, t, nPolls + 1, "fetch1") }
    /\ newestSeq' = [newestSeq EXCEPT ![s] = nPolls + 1]

ClearEvents ==
    /\ callbackEvent' = NoEvent
    /\ pollEvent' = NoEvent
    /\ UNCHANGED fetchEvent

\* The live timers: the ids of the setInterval(poll, ...) timers (a session's
\* number), the ids of the timers of startNotificationLoop (counted from 1),
\* the module variable timerInterval (0 for null) and the number of
\* notification timers made so far
Timers(sync, alert, timerInterval, made) ==
    [sync |-> sync, alert |-> alert, timerInterval |-> timerInterval, made |-> made]

\* The page after main.js has called startNotificationLoop and before any
\* startAutoSync
LoopRunning == Timers({}, {1}, 1, 1)

\* clearInterval(id)
clearInterval(live, id) == live \ {id}

\* a stop that forgets the variable without clearing the timer
ClearedIfSetNoClear(id, live) == live

\* if (id) clearInterval(id), of stopAutoSync and of startNotificationLoop
ClearedIfSet(id, live) == IF id # 0 THEN clearInterval(live, id) ELSE live

\* What stopAutoSync leaves of the settings, timers and audio variables
StopsTimer ==
    /\ timers' = [timers EXCEPT !.sync = ClearedIfSet(syncIntervalId, @)]
    /\ UNCHANGED <<settingsItem, pollDelay, audios, audioNow, effects, call>>

stopAutoSync ==
    /\ syncIntervalId' = 0
    /\ ClearEvents
    /\ StopsTimer
    /\ UNCHANGED <<clock, storedData, nSessions, latestRequestTime,
                   lastKnownMeetings, polls, nPolls, newestSeq, nManual,
                   currentMeetings, alertVars>>

\* The body of startAutoSync with the settings item getSettings() reads: stop,
\* fresh closure, immediate poll, setInterval
StartSession(item) ==
    /\ nSessions < MaxSessions
    /\ nPolls < MaxPolls
    /\ LET s == nSessions + 1
       IN  /\ nSessions' = s
           /\ lastKnownMeetings' = [lastKnownMeetings EXCEPT ![s] = <<>>]
           /\ BeginPoll(s, clock)
           /\ syncIntervalId' = s
           /\ timers' = [timers EXCEPT !.sync = ClearedIfSet(syncIntervalId, @) \cup {s}]
           /\ pollDelay' = SetIntervalDelay(IntervalMs(getSettings(item)))
    /\ ClearEvents
    /\ UNCHANGED <<clock, storedData, nManual, currentMeetings, alertVars,
                   audios, audioNow, effects, call>>

\* startAutoSync(handleSyncResult)
startAutoSync ==
    /\ StartSession(settingsItem)
    /\ UNCHANGED settingsItem

\* A live interval timer fires and runs the poll of its session.  The period
\* is at least 15 s, so Date.now() has moved on since the session's previous
\* poll started.
TimerPoll ==
    /\ nPolls < MaxPolls
    /\ clock' = clock + 1
    /\ \E s \in timers.sync : BeginPoll(s, clock + 1)
    /\ ClearEvents
    /\ UNCHANGED <<storedData, syncIntervalId, nSessions, lastKnownMeetings,
                   nManual, currentMeetings, alertVars, appVars>>

\* A meeting done in `old` appears under the same id in `new` neither done nor
\* cancelled
Regressed(old, new) ==
    \E i \in DOMAIN old, j \in DOMAIN new :
        /\ old[i].id = new[j].id
        /\ isDone(old[i])
        /\ ~isDone(new[j])
        /\ ~isCancelled(new[j])

CallbackEvent(p, r, fetches) ==
    [type |-> "callback", session |-> p.session, seq |-> p.seq, fetches |-> fetches,
     regressed |-> Regressed(lastKnownMeetings[p.session], r.meetings),
     failed |-> r.error # NULL]

PollEvent(p, phase, outcome, fm, c) ==
    [type |-> "poll", session |-> p.session, seq |-> p.seq,
     phase |-> phase, outcome |-> outcome,
     fetchRejected |-> fm.rejected, fetchFailed |-> fm.result.error # NULL,
     regressed |-> Regressed(lastKnownMeetings[p.session], fm.result.meetings),
     escaped |-> c.escaped, caught |-> c.caught]

\* poll() returning early, but adopting the fetched snapshot as the reference
PollReturnsAdopting(p, phase, outcome, fm) ==
    /\ polls' = polls \ {p}
    /\ callbackEvent' = NoEvent
    /\ pollEvent' = PollEvent(p, phase, outcome, fm, pollCatch(fm.rejected))
    /\ lastKnownMeetings' = [lastKnownMeetings EXCEPT ![p.session] = fm.result.meetings]
    /\ UNCHANGED currentMeetings

\* poll() leaves the try block without calling back
PollReturns(p, phase, outcome, fm) ==
    /\ polls' = polls \ {p}
    /\ callbackEvent' = NoEvent
    /\ pollEvent' = PollEvent(p, phase, outcome, fm, pollCatch(fm.rejected))
    /\ UNCHANGED <<lastKnownMeetings, currentMeetings>>

\* callback(r) without the assignment to lastKnownMeetings
PollDeliversKeepingKnown(p, phase, fm, domOk) ==
    LET r == fm.result
        h == handleSyncResult(r, currentMeetings, domOk)
    IN  /\ polls' = polls \ {p}
        /\ UNCHANGED lastKnownMeetings
        /\ currentMeetings' = h.currentMeetings
        /\ callbackEvent' = CallbackEvent(p, r, IF phase = "fetch1" THEN 1 ELSE 2)
        /\ pollEvent' = PollEvent(p, phase, "delivered", fm, pollCatch(h.threw))

\* lastKnownMeetings = r.meetings; callback(r)
PollDelivers(p, phase, fm, domOk) ==
    LET r == fm.result
        h == handleSyncResult(r, currentMeetings, domOk)
    IN  /\ polls' = polls \ {p}
        /\ lastKnownMeetings' = [lastKnownMeetings EXCEPT ![p.session] = r.meetings]
        /\ currentMeetings' = h.currentMeetings
        /\ callbackEvent' = CallbackEvent(p, r, IF phase = "fetch1" THEN 1 ELSE 2)
        /\ pollEvent' = PollEvent(p, phase, "delivered", fm, pollCatch(h.threw))

\* `await fetchMeetings()` of the poll resolves and poll() runs up to its next
\* await or to its end
FirstFetchResolves(p, resp, storageOk, domOk) ==
    /\ p \in polls
    /\ p.pc = "fetch1"
    /\ LET fm    == fetchMeetings(resp, storedData, storageOk, wall)
           known == lastKnownMeetings[p.session]
       IN  /\ storedData' = fm.data
           /\ IF fm.rejected
              THEN PollReturns(p, "fetch1", "error", fm)
              ELSE IF isStale(p.thisRequestTime, latestRequestTime[p.session])
              THEN PollReturns(p, "fetch1", "stale", fm)
              ELSE IF /\ Len(known) > 0
                      /\ Len(fm.result.meetings) > 0
                      /\ isReverting(known, fm.result.meetings)
              THEN /\ polls' = (polls \ {p}) \cup {[p EXCEPT !.pc = "sleep"]}
                   /\ callbackEvent' = NoEvent
                   /\ pollEvent' = PollEvent(p, "fetch1", "verify", fm, pollCatch(FALSE))
                   /\ UNCHANGED <<lastKnownMeetings, currentMeetings>>
              ELSE PollDelivers(p, "fetch1", fm, domOk)
    /\ UNCHANGED <<clock, syncIntervalId, nSessions, latestRequestTime, nPolls,
                   newestSeq, nManual, fetchEvent, alertVars, appVars>>

\* The 500 ms setTimeout of the verification elapses: fetchMeetings() is called again
VerifyDelayElapses(p) ==
    /\ p \in polls
    /\ p.pc = "sleep"
    /\ polls' = (polls \ {p}) \cup {[p EXCEPT !.pc = "fetch2"]}
    /\ ClearEvents
    /\ UNCHANGED <<clock, storedData, syncIntervalId, nSessions, latestRequestTime,
                   lastKnownMeetings, nPolls, newestSeq, nManual, currentMeetings,
                   alertVars, appVars>>

\* The verification fetch resolves
VerifyFetchResolves(p, resp, storageOk, domOk) ==
    /\ p \in polls
    /\ p.pc = "fetch2"
    /\ LET fm    == fetchMeetings(resp, storedData, storageOk, wall)
           known == lastKnownMeetings[p.session]
       IN  /\ storedData' = fm.data
           /\ IF fm.rejected
              THEN PollReturns(p, "fetch2", "error", fm)
              ELSE IF isStale(p.thisRequestTime, latestRequestTime[p.session])
              THEN PollReturns(p, "fetch2", "stale", fm)
              ELSE IF isReverting(known, fm.result.meetings)
              THEN PollDelivers(p, "fetch2", fm, domOk)
              ELSE PollReturns(p, "fetch2", "flap", fm)
    /\ UNCHANGED <<clock, syncIntervalId, nSessions, latestRequestTime, nPolls,
                   newestSeq, nManual, fetchEvent, alertVars, appVars>>

\* Sync button: fetchMeetings().then(handleSyncResult)
ManualSync(resp, storageOk) ==
    LET fm == fetchMeetings(resp, storedData, storageOk, wall)
        h  == handleSyncResult(fm.result, currentMeetings, TRUE)
    IN  /\ nManual < MaxManual
        /\ nManual' = nManual + 1
        /\ storedData' = fm.data
        /\ currentMeetings' = IF fm.rejected THEN currentMeetings ELSE h.currentMeetings
        /\ callbackEvent' = NoEvent
        /\ pollEvent' = NoEvent
        /\ UNCHANGED <<clock, syncIntervalId, nSessions, latestRequestTime,
                       lastKnownMeetings, polls, nPolls, newestSeq, fetchEvent,
                       alertVars, appVars>>

-----------------------------------------------------------------------------
(* The sync engine's specification *)

WallStart == 2860       \* 23:50:00 of day 0, in half minutes since 00:00 of day 0

\* The cache a previous page load may have left behind
InitialItems == { NoItem, CorruptItem, JsonItem(<<FeedMeeting(1, S_TAMM)>>) }

InitSync ==
    /\ clock = 1
    /\ syncIntervalId = 0
    /\ timers = LoopRunning
    /\ nSessions = 0
    /\ latestRequestTime = [s \in Sessions |-> 0]
    /\ lastKnownMeetings = [s \in Sessions |-> <<>>]
    /\ polls = {}
    /\ nPolls = 0
    /\ nManual = 0
    /\ newestSeq = [s \in Sessions |-> 0]
    /\ currentMeetings = <<>>
    /\ fetchEvent = NoEvent
    /\ callbackEvent = NoEvent
    /\ pollEvent = NoEvent

\* Settings, timers and audio before anything was saved, started or played
InitApp ==
    /\ settingsItem = NoSettingsItem
    /\ pollDelay = 0
    /\ audios = <<>>
    /\ audioNow = 0
    /\ effects = NoEvent
    /\ call = NoEvent

\* notifications.js as loaded at wall time w, before any snapshot is published
InitAlertAt(w) ==
    /\ wall = w
    /\ triggeredNotifications = {}
    /\ lastNotifiedDate = toDateString(w)
    /\ firedToday = {}
    /\ firedAgain = {}
    /\ alertEvent = NoEvent
    /\ age = 0

Init ==
    /\ storedData \in InitialItems
    /\ InitSync
    /\ InitAlertAt(WallStart)
    /\ InitApp

Next ==
    \/ startAutoSync
    \/ stopAutoSync
    \/ TimerPoll
    \/ \E p \in polls, resp \in Responses, storageOk \in BOOLEAN, domOk \in BOOLEAN :
           FirstFetchResolves(p, resp, storageOk, domOk)
    \/ \E p \in polls : VerifyDelayElapses(p)
    \/ \E p \in polls, resp \in Responses, storageOk \in BOOLEAN, domOk \in BOOLEAN :
           VerifyFetchResolves(p, resp, storageOk, domOk)

Spec == Init /\ [][Next]_vars

\* The sync engine together with the sync button
NextWithButton ==
    \/ Next
    \/ \E resp \in Responses, storageOk \in BOOLEAN : ManualSync(resp, storageOk)

ButtonSpec == Init /\ [][NextWithButton]_vars

-----------------------------------------------------------------------------
(* The settings dialog and initSync (main.js) *)

JsNumber(n) == JsValue3("number", FALSE, n, <<>>)

\* initSync(): start the sync engine when a sheet id is configured
initSync ==
    /\ Truthy(getSettings(settingsItem).sheetId)
    /\ startAutoSync

\* The Save button: updateSettings(newSettings); stopAutoSync(); initSync()
SaveSettings(sheetIdText, checked, intervalText) ==
    LET newSettings ==
            [sheetId         |-> JsStr(Trim(sheetIdText)),
             soundEnabled    |-> JsBool(checked),
             refreshInterval |-> JsNumber(parseFloat(
                 JsStr(IF intervalText = <<>> THEN <<"5">> ELSE intervalText)))]
        item == updateSettings(settingsItem, newSettings)
    IN  /\ settingsItem' = item
        /\ IF Truthy(getSettings(item).sheetId)
           THEN StartSession(item)
           ELSE /\ syncIntervalId' = 0
                /\ ClearEvents
                /\ timers' = [timers EXCEPT !.sync = ClearedIfSet(syncIntervalId, @)]
                /\ UNCHANGED <<clock, storedData, nSessions, latestRequestTime,
                               lastKnownMeetings, polls, nPolls, newestSeq, nManual,
                               currentMeetings, alertVars, pollDelay, audios, audioNow,
                               effects, call>>

K_2PACX_AB == PublishPrefix \o <<"a","b">>
T_ABC == <<"a","b","c">>

\* What localStorage may hold for the settings when the page loads
StoredIntervals ==
    { Undefined, JsNullValue, JsNum(0), JsNum(10), JsNum(25), JsNum(50), JsNum(500),
      JsStr(T_ABC), JsStr(<<"0",".","1">>), JsStr(<<"2">>) }
StoredSheetIds == { Undefined, JsStr(<<>>), JsStr(K_2PACX_AB) }
InitialSettingsItems ==
    { NoSettingsItem, CorruptSettingsItem } \cup
    { SettingsItem([sheetId |-> k, refreshInterval |-> ri, soundEnabled |-> se]) :
        k \in StoredSheetIds, ri \in StoredIntervals, se \in {Undefined, JsBool(FALSE)} }

\* What the dialog's fields may hold when Save is pressed
SheetIdTexts  == { <<>>, <<" ">> \o K_2PACX_AB }
IntervalTexts == { <<>>, <<"0",".","5">>, <<"0",".","1">>, T_ABC }

InitSettings ==
    /\ storedData = NoItem
    /\ InitSync
    /\ InitAlertAt(WallStart)
    /\ settingsItem \in InitialSettingsItems
    /\ pollDelay = 0
    /\ audios = <<>>
    /\ audioNow = 0
    /\ effects = NoEvent
    /\ call = NoEvent

NextSettings ==
    \/ initSync
    \/ \E sheetIdText \in SheetIdTexts, checked \in BOOLEAN, intervalText \in IntervalTexts :
           SaveSettings(sheetIdText, checked, intervalText)

SettingsSpec == InitSettings /\ [][NextSettings]_vars

-----------------------------------------------------------------------------
(* fetchMeetings on its own: every response against every stored cache *)

FetchEvent(resp, before, storageOk, fm) ==
    [type |-> "fetch", resp |-> resp, before |-> before, storageOk |-> storageOk,
     key |-> activeKey(getSettings(settingsItem)),
     rejected |-> fm.rejected, result |-> fm.result]

FetchMeetingsCall(resp, storageOk) ==
    LET fm == fetchMeetings(resp, storedData, storageOk, wall)
    IN  /\ storedData' = fm.data
        /\ fetchEvent' = FetchEvent(resp, storedData, storageOk, fm)
        /\ UNCHANGED <<clock, syncIntervalId, nSessions, latestRequestTime,
                       lastKnownMeetings, polls, nPolls, newestSeq, nManual,
                       currentMeetings, callbackEvent, pollEvent, alertVars, appVars>>

FetchWalls == { WallStart, WallStart + 19 }     \* 23:50:00 and 23:59:30

\* Stored settings that differ in the sheet id
KeySettingsItems ==
    { NoSettingsItem } \cup
    { SettingsItem([NoSettingsItem.object EXCEPT !.sheetId = k]) :
        k \in { JsNullValue, JsStr(<<>>), JsStr(K_2PACX_AB), JsStr(PublishPrefix),
                JsStr(T_ABC), JsStr(<<"x">> \o K_2PACX_AB), JsStr(<<" ">> \o K_2PACX_AB),
                JsStr(<<"2","p","a","c","x","-","a","b">>), JsStr(<<"2","P","A","C","X">>) } }

InitFetch ==
    /\ storedData \in InitialItems
    /\ InitSync
    /\ \E w \in FetchWalls : InitAlertAt(w)
    /\ settingsItem \in KeySettingsItems
    /\ pollDelay = 0
    /\ audios = <<>>
    /\ audioNow = 0
    /\ effects = NoEvent
    /\ call = NoEvent

NextFetch == \E resp \in Responses, storageOk \in BOOLEAN : FetchMeetingsCall(resp, storageOk)

FetchSpec == InitFetch /\ [][NextFetch]_vars

-----------------------------------------------------------------------------
(* The notification engine (notifications.js) *)

\* resetNotificationsIfNewDay(): cleared tells whether clear() was called
resetWithoutClear(w, triggered, last) ==
    IF toDateString(w) # last
    THEN [triggered |-> triggered, last |-> toDateString(w), cleared |-> FALSE]
    ELSE [triggered |-> triggered, last |-> last, cleared |-> FALSE]

resetNotificationsIfNewDay(w, triggered, last) ==
    IF toDateString(w) # last
    THEN [triggered |-> {}, last |-> toDateString(w), cleared |-> TRUE]
    ELSE [triggered |-> triggered, last |-> last, cleared |-> FALSE]

\* a key that leaves out the threshold
AlertKeyNoType(id, type) == id

\* `${meeting.id}_30min`, `${meeting.id}_5min`
AlertKey(id, type) == id \o type

\* a dedup set that never reports a key
HasNever(triggered, key) == FALSE

\* triggeredNotifications.has(key)
Has(triggered, key) == key \in triggered

\* triggerAlert(meeting, prefix, minutesType, diff), as seen from outside
triggerAlert(meeting, key, minutesType, diff) ==
    [meeting |-> meeting, key |-> key, minutesType |-> minutesType, diff |-> diff]

\* a threshold test without its lower bound
CheckThresholdNoLowerBound(meeting, diff, lo, hi, type, minutesType, st) ==
    LET key == AlertKey(meeting.id, type)
    IN  IF diff <= hi /\ ~Has(st.triggered, key)
        THEN [triggered |-> st.triggered \cup {key},
              alerts |-> Append(st.alerts, triggerAlert(meeting, key, minutesType, diff))]
        ELSE st

\* One threshold of the loop body ("Logic A", "Logic B"); st carries the dedup
\* set and the triggerAlert calls made so far
CheckThreshold(meeting, diff, lo, hi, type, minutesType, st) ==
    LET key == AlertKey(meeting.id, type)
    IN  IF diff >= lo /\ diff <= hi /\ ~Has(st.triggered, key)
        THEN [triggered |-> st.triggered \cup {key},
              alerts |-> Append(st.alerts, triggerAlert(meeting, key, minutesType, diff))]
        ELSE st

\* The body of `for (const meeting of todayMeetings)`
CheckMeeting(meeting, nowMinutes, st) ==
    LET status == Trim(meeting.status)
        parts  == Split(meeting.time, ":")
        h      == Number(parts[1])
        min    == IF Len(parts) >= 2 THEN Number(parts[2]) ELSE NaN
    IN  IF status = S_MULGHI \/ status = S_LAM_YATIM \/ status = S_TAMM THEN st
        ELSE IF h.nan \/ min.nan THEN st
        ELSE LET diff == (h.value * 60 + min.value) - nowMinutes
             IN  CheckThreshold(meeting, diff, 4, 5, "_5min", 5,
                     CheckThreshold(meeting, diff, 29, 30, "_30min", 30, st))

RECURSIVE CheckFrom(_, _, _, _)
CheckFrom(todayMeetings, i, nowMinutes, st) ==
    IF i > Len(todayMeetings) THEN st
    ELSE CheckFrom(todayMeetings, i + 1, nowMinutes,
                   CheckMeeting(todayMeetings[i], nowMinutes, st))

\* checkMeetingTimers(meetings, todayDate) at wall time w
checkMeetingTimers(meetings, todayDate, w, triggered, last) ==
    LET r == resetNotificationsIfNewDay(w, triggered, last)
        todayMeetings == SelectSeq(meetings, LAMBDA m : m.date = todayDate /\ m.time # <<>>)
        st == CheckFrom(todayMeetings, 1, NowMinutes(w),
                        [triggered |-> r.triggered, alerts |-> <<>>])
    IN  [triggered |-> st.triggered, last |-> r.last, cleared |-> r.cleared,
         alerts |-> st.alerts]

WallEnd == 2890     \* 00:05:00 of day 1
AgeCap  == 6

\* The (id, threshold) pairs of a sequence of triggerAlert calls, and those
\* that occur more than once in it
Pairs(alerts) == { <<alerts[i].meeting.id, alerts[i].minutesType>> : i \in DOMAIN alerts }
RepeatedPairs(alerts) ==
    { <<alerts[i].meeting.id, alerts[i].minutesType>> :
        i \in { k \in DOMAIN alerts :
                  \E j \in DOMAIN alerts :
                      /\ j # k
                      /\ alerts[j].meeting.id = alerts[k].meeting.id
                      /\ alerts[j].minutesType = alerts[k].minutesType } }

\* checkMeetingTimers(getMeetings(), getTodayDate()) as the loop calls it, at
\* wall time w; newDay tells whether local midnight has passed since the last check
LoopCheck(w, newDay) ==
    LET r == checkMeetingTimers(currentMeetings, formatTodayDate(w), w,
                                triggeredNotifications, lastNotifiedDate)
        today  == IF newDay THEN {} ELSE firedToday
        again  == IF newDay THEN {} ELSE firedAgain
    IN  /\ triggeredNotifications' = r.triggered
        /\ lastNotifiedDate' = r.last
        /\ alertEvent' = [type |-> "tick", cleared |-> r.cleared, newDay |-> newDay,
                          before |-> triggeredNotifications,
                          alerts |-> { r.alerts[i] : i \in DOMAIN r.alerts }]
        /\ firedToday' = today \cup Pairs(r.alerts)
        /\ firedAgain' = again \cup (today \cap Pairs(r.alerts)) \cup RepeatedPairs(r.alerts)
        /\ age' = IF age < AgeCap THEN age + 1 ELSE age

\* The setInterval callback of startNotificationLoop, 30 seconds after the last
AlertTick ==
    /\ timers.alert # {}
    /\ wall < WallEnd
    /\ wall' = wall + 1
    /\ LoopCheck(wall + 1, DayOf(wall + 1) # DayOf(wall))
    /\ UNCHANGED <<syncVars, currentMeetings, appVars>>

MaxLoops == 2

\* startNotificationLoop: clear the previous timer, set the new one, check at once
startNotificationLoop ==
    /\ timers.made < MaxLoops
    /\ LET id == timers.made + 1
       IN  timers' = Timers(timers.sync,
                            ClearedIfSet(timers.timerInterval, timers.alert) \cup {id},
                            id, id)
    /\ LoopCheck(wall, FALSE)
    /\ UNCHANGED <<syncVars, currentMeetings, wall, settingsItem, pollDelay, audios,
                   audioNow, effects, call>>

\* Meetings of the notification engine's runs
AlertMeeting(id, day, time, status) == Meeting(id, DateStrings[day + 1], time, status, T_SALES)
T_0006 == <<"0","0",":","0","6">>
T_0033 == <<"0","0",":","3","3">>
T_235X == <<"2","3",":","5","x">>
T_2357 == <<"2","3",":","5","7">>
AlertSnapshots ==
    { <<>>,
      <<AlertMeeting("m-1", 0, T_2357, S_EMPTY)>>,
      <<AlertMeeting("m-1", 0, T_2357, S_DONE_EN)>>,
      <<AlertMeeting("m-1", 0, T_2357, S_TAMM)>>,
      <<AlertMeeting("m-1", 0, T_2357, S_MULGHI)>>,
      <<AlertMeeting("m-1", 1, T_2357, S_EMPTY)>>,
      <<AlertMeeting("m-1", 0, T_235X, S_EMPTY)>>,
      <<AlertMeeting("m-1", 1, T_0006, S_EMPTY)>>,
      <<AlertMeeting("m-1", 1, T_0033, S_EMPTY), AlertMeeting("m-2", 1, T_0006, S_EMPTY)>> }

\* handleSyncResult publishing a snapshot (currentMeetings = meetings)
SnapshotArrives(ms, fromCache) ==
    LET new == handleSyncResult(SyncResult(ms, fromCache, NULL), currentMeetings, TRUE).currentMeetings
    IN  /\ new # currentMeetings
        /\ currentMeetings' = new
        /\ age' = 0
        /\ alertEvent' = NoEvent
        /\ UNCHANGED <<syncVars, wall, triggeredNotifications, lastNotifiedDate,
                       firedToday, firedAgain, appVars>>

InitAlert ==
    /\ storedData = NoItem
    /\ InitSync
    /\ InitAlertAt(WallStart)
    /\ InitApp

NextAlert ==
    \/ AlertTick
    \/ \E ms \in AlertSnapshots, fromCache \in BOOLEAN : SnapshotArrives(ms, fromCache)

AlertSpec == InitAlert /\ [][NextAlert]_vars

\* The two timer loops of the page: their starts and stops and their firings
NextTimers ==
    \/ startAutoSync
    \/ stopAutoSync
    \/ TimerPoll
    \/ startNotificationLoop
    \/ AlertTick

TimerSpec == InitAlert /\ [][NextTimers]_vars

-----------------------------------------------------------------------------
(* The application: the sync engine and the notification loop side by side *)

NextApp ==
    \/ Next
    \/ AlertTick

AppSpec == InitAlert /\ [][NextApp]_vars

-----------------------------------------------------------------------------
(* Audio, toast and push (notifications.js) *)

N_MUJAHID  == <<"MEEM","JEEM","ALEF","HEH","DAL">>       \* "مجاهد"
N_SHADI    == <<"SHEEN","ALEF","DAL","YEH">>             \* "شادي"
N_ASHRAF_H == <<"ALEF_HAMZA","SHEEN","REH","FEH">>       \* "أشرف"
N_ASHRAF   == <<"ALEF","SHEEN","REH","FEH">>             \* "اشرف"

\* getEngineerPrefix(teamName): 'm', 's', 'a' or null
getEngineerPrefix(teamName) ==
    IF teamName = <<>> THEN NULL
    ELSE LET lowerName == ToLowerCase(teamName)
         IN  IF Includes(lowerName, N_MUJAHID) THEN "m"
             ELSE IF Includes(lowerName, N_SHADI) THEN "s"
             ELSE IF Includes(lowerName, N_ASHRAF_H) \/ Includes(lowerName, N_ASHRAF) THEN "a"
             ELSE NULL

RepeatDelaySeconds == 5

\* An Audio element with the playCount of its onended closure.  plays, ended1
\* and start2 record what was heard: the plays started, when the first ended
\* and when the second started.
Audio(file, phase, playCount, plays, due, ended1, start2) ==
    [file |-> file, phase |-> phase, playCount |-> playCount, plays |-> plays,
     due |-> due, ended1 |-> ended1, start2 |-> start2]

\* audio.play(): the element plays, or the promise is rejected and nothing is heard
Play(a, ok, now) ==
    IF ok
    THEN [a EXCEPT !.phase = "playing", !.plays = a.plays + 1,
                   !.start2 = IF a.plays = 1 THEN now ELSE a.start2]
    ELSE [a EXCEPT !.phase = "rejected"]

\* playNotificationSound(filename): the elements it creates (none or one)
playNotificationSound(filename, settings, ok, now) ==
    IF ~Truthy(settings.soundEnabled) THEN <<>>
    ELSE << Play(Audio(filename, "new", 1, 0, 0, 0, 0), ok, now) >>

\* an onended handler that does not count the plays
onendedNoCount(a, now) ==
    [a EXCEPT !.phase = "delay", !.playCount = a.playCount + 1,
              !.due = now + RepeatDelaySeconds,
              !.ended1 = IF a.plays = 1 THEN now ELSE a.ended1]

\* audio.onended: if (playCount < 2) { playCount++; setTimeout(replay, 5000) }
onended(a, now) ==
    IF a.playCount < 2
    THEN [a EXCEPT !.phase = "delay", !.playCount = a.playCount + 1,
                   !.due = now + RepeatDelaySeconds,
                   !.ended1 = IF a.plays = 1 THEN now ELSE a.ended1]
    ELSE [a EXCEPT !.phase = "ended"]

\* Notification.permission, or no Notification in window
Permissions == {"granted", "denied", "unsupported"}

\* a push sent whenever the API exists
sendPushAlways(permission) ==
    IF permission = "unsupported" THEN <<>> ELSE <<"push">>

\* sendPushNotification(meeting, timeText)
sendPushNotification(permission) ==
    IF permission = "unsupported" THEN <<>>
    ELSE IF permission = "granted" THEN <<"push">>
    ELSE <<>>

\* `${prefix}${minutesType}.mp3`
SoundFile(prefix, minutesType) == prefix \o (IF minutesType = 30 THEN "30" ELSE "5") \o ".mp3"

\* The body of triggerAlert: the Audio elements it creates and its side
\* effects in the order they are made
triggerAlertBody(meeting, minutesType, settings, ok, permission, now) ==
    LET prefix == getEngineerPrefix(meeting.team)
        new    == IF prefix # NULL
                  THEN playNotificationSound(SoundFile(prefix, minutesType), settings, ok, now)
                  ELSE <<>>
    IN  [audios  |-> new,
         effects |-> (IF new # <<>> THEN <<"audio">> ELSE <<>>)
                         \o <<"toast">> \o sendPushNotification(permission)]

MaxAudios    == 2
MaxAudioTime == 6

T_MUJAHID == <<"MEEM",".">> \o N_MUJAHID                 \* "م.مجاهد"
T_SHADI   == <<"MEEM",".">> \o N_SHADI
AudioMeetings ==
    { Meeting("m-1", DateStrings[1], T_2357, S_EMPTY, T_MUJAHID),
      Meeting("m-2", DateStrings[1], T_2357, S_EMPTY, T_SALES) }

AudioUnchanged == UNCHANGED <<syncVars, currentMeetings, alertVars, settingsItem, pollDelay, timers, call>>

\* checkMeetingTimers calls triggerAlert(meeting, prefix, minutesType, diff)
\* effects holds the side effects of the step just taken
TriggerAlert(meeting, minutesType, ok, permission) ==
    /\ Len(audios) < MaxAudios
    /\ LET r == triggerAlertBody(meeting, minutesType, getSettings(settingsItem), ok,
                                 permission, audioNow)
       IN  /\ audios' = audios \o r.audios
           /\ effects' = [type |-> "alert", meeting |-> meeting,
                          permission |-> permission, made |-> r.effects]
    /\ audioNow' = audioNow
    /\ AudioUnchanged

\* An element finishes playing: its onended handler runs
AudioEnds(i) ==
    /\ audios[i].phase = "playing"
    /\ audios' = [audios EXCEPT ![i] = onended(audios[i], audioNow)]
    /\ effects' = NoEvent
    /\ audioNow' = audioNow
    /\ AudioUnchanged

\* The 5000 ms timer of an element fires: audio.play() again
RepeatTimerFires(i, ok) ==
    /\ audios[i].phase = "delay"
    /\ audios[i].due = audioNow
    /\ audios' = [audios EXCEPT ![i] = Play(audios[i], ok, audioNow)]
    /\ effects' = NoEvent
    /\ audioNow' = audioNow
    /\ AudioUnchanged

\* A second passes; a timer that is due fires first
AudioTimePasses ==
    /\ audioNow < MaxAudioTime
    /\ \A i \in DOMAIN audios : audios[i].phase = "delay" => audios[i].due > audioNow
    /\ audioNow' = audioNow + 1
    /\ effects' = NoEvent
    /\ audios' = audios
    /\ AudioUnchanged

SoundSettingsItems ==
    { NoSettingsItem,
      SettingsItem([NoSettingsItem.object EXCEPT !.soundEnabled = JsBool(FALSE)]),
      SettingsItem([NoSettingsItem.object EXCEPT !.soundEnabled = JsBool(TRUE)]) }

InitAudio ==
    /\ storedData = NoItem
    /\ InitSync
    /\ InitAlertAt(WallStart)
    /\ settingsItem \in SoundSettingsItems
    /\ pollDelay = 0
    /\ audios = <<>>
    /\ audioNow = 0
    /\ effects = NoEvent
    /\ call = NoEvent

NextAudio ==
    \/ \E meeting \in AudioMeetings, minutesType \in {30, 5}, ok \in BOOLEAN,
          permission \in Permissions : TriggerAlert(meeting, minutesType, ok, permission)
    \/ \E i \in DOMAIN audios : AudioEnds(i)
    \/ \E i \in DOMAIN audios, ok \in BOOLEAN : RepeatTimerFires(i, ok)
    \/ AudioTimePasses

AudioSpec == InitAudio /\ [][NextAudio]_vars

-----------------------------------------------------------------------------
(* The parsing functions on their own: one call on an input of a bounded set *)

MaxFieldLen == 2
MaxRows     == 3

\* the characters of a field: a letter, the separator, the quote, blank, newline
FieldChars == {"a", ",", "\"", " ", "\n"}

RECURSIVE StringsUpTo(_, _)
StringsUpTo(chars, n) ==
    IF n = 0 THEN { <<>> }
    ELSE LET shorter == StringsUpTo(chars, n - 1)
         IN  shorter \cup { Append(s, c) : s \in shorter, c \in chars }

Fields == StringsUpTo(FieldChars, MaxFieldLen)

\* rows of one or two fields
FieldRows == { <<f>> : f \in Fields } \cup { <<f, g>> : f \in Fields, g \in Fields }

\* a field between double quotes, its own quotes doubled
RECURSIVE Doubled(_)
Doubled(f) ==
    IF f = <<>> THEN <<>>
    ELSE (IF Head(f) = "\"" THEN <<"\"", "\"">> ELSE <<Head(f)>>) \o Doubled(Tail(f))

Quoted(f) == <<"\"">> \o Doubled(f) \o <<"\"">>

\* the quoted fields of a row joined with commas
RECURSIVE QuotedLine(_)
QuotedLine(row) ==
    IF Len(row) = 0 THEN <<>>
    ELSE IF Len(row) = 1 THEN Quoted(row[1])
    ELSE Quoted(Head(row)) \o <<",">> \o QuotedLine(Tail(row))

CallParseCSV(row) ==
    /\ call' = [type |-> "parseCSV", row |-> row, text |-> QuotedLine(row),
                result |-> parseCSV(QuotedLine(row))]
    /\ UNCHANGED <<syncVars, currentMeetings, alertVars, settingsItem, pollDelay, timers,
                   audios, audioNow, effects>>

\* column 0 of a sheet row: empty, two dates, a weekday, a bare number
D_1_2  == <<"1","/","2">>
D_3_4  == <<"3","-","4">>
W_MON  == <<"M","o","n">>
N_12   == <<"1","2">>
DateCells == { <<>>, D_1_2, D_3_4, W_MON, N_12 }

\* rows of no cell, of the date cell alone, and of the date cell and one more
SheetRows ==
    { <<>> } \cup { <<d>> : d \in DateCells } \cup { <<d, <<"x">> >> : d \in DateCells }

RECURSIVE SeqsUpTo(_, _)
SeqsUpTo(S, n) ==
    IF n = 0 THEN { <<>> }
    ELSE LET shorter == SeqsUpTo(S, n - 1)
         IN  shorter \cup { Append(s, x) : s \in shorter, x \in S }

CallForwardFillDates(rows) ==
    /\ call' = [type |-> "forwardFillDates", rows |-> rows,
                result |-> forwardFillDates(rows)]
    /\ UNCHANGED <<syncVars, currentMeetings, alertVars, settingsItem, pollDelay, timers,
                   audios, audioNow, effects>>

\* the hours, the minutes and the indicators of the H:MM inputs
MaxHour == 13
Hours   == 0..MaxHour
MinuteTexts == { <<"0","0">>, <<"3","0">> }
Indicators ==
    [none   |-> <<>>,
     am     |-> <<" ","a","m">>,
     AM     |-> <<" ","A","M">>,
     pm     |-> <<" ","p","m">>,
     PM     |-> <<"P","M">>,
     sad    |-> <<" ","SAD">>,
     meem   |-> <<" ","MEEM">>,
     sabah  |-> <<" ","SAD","BEH","ALEF","HAH","ALEF">>,
     masaa  |-> <<" ","MEEM","SEEN","ALEF","HAMZA">>,
     both   |-> <<" ","a","m"," ","p","m">>]

\* String(h), and h with a leading zero
HourText(h, padded) ==
    IF h >= 10 \/ padded THEN Pad2(h) ELSE <<DigitChars[h + 1]>>

CallParseTimeStr(h, padded, mm, ind) ==
    LET timeStr == HourText(h, padded) \o <<":">> \o mm \o Indicators[ind]
    IN  /\ call' = [type |-> "parseTimeStr", h |-> h, mm |-> mm, ind |-> ind,
                    timeStr |-> timeStr, result |-> parseTimeStr(timeStr)]
        /\ UNCHANGED <<syncVars, currentMeetings, alertVars, settingsItem, pollDelay, timers,
                       audios, audioNow, effects>>

\* the parts of a date text: empty, a day, a month, a year, a month between
\* blanks
MaxDateParts == 4
DateParts == { <<>>, <<"5">>, <<"1">>, <<"2","0","2","5">>, <<" ","1","2"," ">> }

\* parts joined with one separator
RECURSIVE Joined(_, _)
Joined(parts, sep) ==
    IF Len(parts) = 0 THEN <<>>
    ELSE IF Len(parts) = 1 THEN parts[1]
    ELSE Head(parts) \o <<sep>> \o Joined(Tail(parts), sep)

DatePartLists == SeqsUpTo(DateParts, MaxDateParts) \ { <<>> }

CallNormalizeDate(parts, sep, blank) ==
    LET dateStr == (IF blank THEN <<" ">> ELSE <<>>) \o Joined(parts, sep)
                       \o (IF blank THEN <<" ">> ELSE <<>>)
    IN  /\ call' = [type |-> "normalizeDate", parts |-> parts, dateStr |-> dateStr,
                    result |-> normalizeDate(dateStr),
                    again |-> normalizeDate(normalizeDate(dateStr))]
        /\ UNCHANGED <<syncVars, currentMeetings, alertVars, settingsItem, pollDelay, timers,
                       audios, audioNow, effects>>

\* the sheet: row 0 (column titles, or a row that reads like a meeting) and
\* data rows of four columns or none
MaxDataRows == 2
D_5_1_2025 == <<"5","/","1","/","2","0","2","5">>
C_TBD      == <<"T","B","D">>
C_8_00     == <<"8",":","0","0">>
HeaderRows ==
    { << <<"D","a","t","e">>, <<"P","r","o","j","e","c","t">>, <<"T","e","a","m">>,
         <<"T","i","m","e">> >>,
      << D_5_1_2025, <<"H">>, <<"T">>, C_8_00 >> }
DataRowValues ==
    { <<>> } \cup
    { <<d, p, t, h>> : d \in { <<>>, D_5_1_2025 }, p \in { <<>>, <<"P">> },
                       t \in { <<>>, <<"T">> }, h \in { <<>>, C_8_00, C_TBD } }

\* for each meeting of mapRowsToMeetings(rows), the position in rows (from 1)
\* of the row it was made from
MeetingSources(rows) ==
    LET kept == Retained(forwardFillDates(DataRows(rows)))
    IN  [k \in 1..Len(kept) |-> kept[k] + (Len(rows) - Len(DataRows(rows)))]

CallMapRowsToMeetings(rows) ==
    /\ call' = [type |-> "mapRowsToMeetings", rows |-> rows,
                result |-> mapRowsToMeetings(rows), sources |-> MeetingSources(rows)]
    /\ UNCHANGED <<syncVars, currentMeetings, alertVars, settingsItem, pollDelay, timers,
                   audios, audioNow, effects>>


\* status texts: two words with a blank between them, with or without
\* blanks around
StatusWords ==
    { <<>>, S_TAMM, S_LAM_YATIM, S_DONE_EN, <<"N","O","T">>, <<"f","a","i","l","e","d">>,
      <<"F","i","n","i","s","h">>, S_KHARIJI }
StatusTexts ==
    { <<>> } \cup StatusWords
        \cup { v \o <<" ">> \o w : v \in StatusWords, w \in StatusWords }
        \cup { <<" ">> \o w \o <<" ">> : w \in StatusWords }

CallIsDone(status) ==
    /\ call' = [type |-> "isDone", status |-> status,
                result |-> isDone(Meeting("m-1", DateStrings[1], T_2352, status, T_SALES))]
    /\ UNCHANGED <<syncVars, currentMeetings, alertVars, settingsItem, pollDelay, timers,
                   audios, audioNow, effects>>

\* the objects passed to updateSettings: any of the keys, each with a value
NewSettingsValues ==
    [sheetId         |-> { JsStr(K_2PACX_AB) },
     refreshInterval |-> { JsNum(100), JsNumNaN },
     soundEnabled    |-> { JsBool(FALSE) }]
NewSettingsObjects ==
    UNION { { f \in [keys -> UNION { NewSettingsValues[k] : k \in SettingsKeys }] :
                \A k \in keys : f[k] \in NewSettingsValues[k] } :
            keys \in SUBSET SettingsKeys }

\* getSettings() before and after updateSettings(newSettings)
CallUpdateSettings(item, newSettings) ==
    /\ call' = [type |-> "updateSettings", item |-> item, newSettings |-> newSettings,
                before |-> getSettings(item),
                after |-> getSettings(updateSettings(item, newSettings))]
    /\ UNCHANGED <<syncVars, currentMeetings, alertVars, settingsItem, pollDelay, timers,
                   audios, audioNow, effects>>

\* h * 60 + min of `const [h, min] = m.time.split(':').map(Number)`
meetingMinutes(m) ==
    LET parts == Split(m.time, ":")
        h     == Number(parts[1])
        min   == IF Len(parts) >= 2 THEN Number(parts[2]) ELSE NaN
    IN  IF h.nan \/ min.nan THEN NaN
        ELSE [nan |-> FALSE, value |-> h.value * 60 + min.value]

\* targetMeetings[0] after the stable sort by time: the first of the earliest
FirstBySortByTime(ms) ==
    ms[CHOOSE i \in DOMAIN ms :
          \A j \in DOMAIN ms :
              \/ meetingMinutes(ms[j]).value > meetingMinutes(ms[i]).value
              \/ meetingMinutes(ms[j]).value = meetingMinutes(ms[i]).value /\ j >= i]

NoMeeting == [isNull |-> TRUE]

\* getNextMeeting from its pendingToday on, at wall time w
NextOfPending(pendingToday, w) ==
    LET nowMinutes == NowMinutes(w)
        futureMeetings ==
            SelectSeq(pendingToday, LAMBDA m :
                ~meetingMinutes(m).nan /\ meetingMinutes(m).value >= nowMinutes)
        overdueMeetings ==
            SelectSeq(pendingToday, LAMBDA m :
                /\ ~meetingMinutes(m).nan
                /\ meetingMinutes(m).value < nowMinutes
                /\ meetingMinutes(m).value >= nowMinutes - 60)
        Batch(targetMeetings, isOverdue) ==
            LET targetTime == FirstBySortByTime(targetMeetings).time
                total == meetingMinutes(FirstBySortByTime(targetMeetings)).value
            IN  [isNull |-> FALSE,
                 meetings |-> SelectSeq(targetMeetings, LAMBDA m : m.time = targetTime),
                 time |-> targetTime,
                 minutesUntil |-> total - nowMinutes,
                 totalMinutes |-> total,
                 isOverdue |-> isOverdue]
    IN  IF Len(pendingToday) = 0 THEN NoMeeting
        ELSE IF Len(futureMeetings) > 0 THEN Batch(futureMeetings, FALSE)
        ELSE IF Len(overdueMeetings) > 0 THEN Batch(overdueMeetings, TRUE)
        ELSE NoMeeting

\* getNextMeeting filtering out the done meetings only
getNextMeetingKeepingCancelled(meetings, w) ==
    NextOfPending(SelectSeq(meetings, LAMBDA m :
                      m.date = formatTodayDate(w) /\ ~isDone(m)), w)

\* getNextMeeting(meetings) at wall time w
getNextMeeting(meetings, w) ==
    NextOfPending(SelectSeq(meetings, LAMBDA m :
                      m.date = formatTodayDate(w) /\ ~isDone(m) /\ ~isCancelled(m)), w)

\* The meetings of the countdown banner's snapshots: today's pending meetings
\* 5 and 8 minutes ahead, 10, 30 and 65 minutes past and without a time, a
\* done and a cancelled one 5 minutes ahead, and tomorrow's
MaxBannerLen == 3
T_2355 == <<"2","3",":","5","5">>
T_2358 == <<"2","3",":","5","8">>
T_2340 == <<"2","3",":","4","0">>
T_2320 == <<"2","3",":","2","0">>
T_2245 == <<"2","2",":","4","5">>
BannerMeetings ==
    { Meeting("m-1", DateStrings[1], T_2355, S_EMPTY, T_SALES),
      Meeting("m-2", DateStrings[1], T_2358, S_EMPTY, T_SALES),
      Meeting("m-3", DateStrings[1], T_2340, S_EMPTY, T_SALES),
      Meeting("m-4", DateStrings[1], T_2320, S_EMPTY, T_SALES),
      Meeting("m-5", DateStrings[1], T_2245, S_EMPTY, T_SALES),
      Meeting("m-6", DateStrings[1], <<>>, S_EMPTY, T_SALES),
      Meeting("m-7", DateStrings[1], T_2355, S_TAMM, T_SALES),
      Meeting("m-8", DateStrings[1], T_2355, S_MULGHI, T_SALES),
      Meeting("m-9", DateStrings[2], T_2355, S_EMPTY, T_SALES),
      Meeting("m-10", DateStrings[1], T_2355, S_EMPTY, T_ADMIN) }

CallGetNextMeeting(meetings) ==
    /\ call' = [type |-> "getNextMeeting", meetings |-> meetings,
                result |-> getNextMeeting(meetings, wall)]
    /\ UNCHANGED <<syncVars, currentMeetings, alertVars, settingsItem, pollDelay, timers,
                   audios, audioNow, effects>>

\* currentMeetings before and after handleSyncResult(result)
CallHandleSyncResult(result, cur, domOk) ==
    /\ call' = [type |-> "handleSyncResult", result |-> result, before |-> cur,
                after |-> handleSyncResult(result, cur, domOk).currentMeetings]
    /\ UNCHANGED <<syncVars, currentMeetings, alertVars, settingsItem, pollDelay, timers,
                   audios, audioNow, effects>>

InitParse ==
    /\ storedData = NoItem
    /\ InitSync
    /\ InitAlertAt(WallStart)
    /\ InitApp

\* one call, from the state in which no call was made
NextParse ==
    /\ call = NoEvent
    /\ \/ \E row \in FieldRows : CallParseCSV(row)
       \/ \E rows \in SeqsUpTo(SheetRows, MaxRows) : CallForwardFillDates(rows)
       \/ \E h \in Hours, padded \in BOOLEAN, mm \in MinuteTexts, ind \in DOMAIN Indicators :
             CallParseTimeStr(h, padded, mm, ind)
       \/ \E parts \in DatePartLists, sep \in {"/", "-"}, blank \in BOOLEAN :
             CallNormalizeDate(parts, sep, blank)
       \/ \E header \in HeaderRows, data \in SeqsUpTo(DataRowValues, MaxDataRows) :
             CallMapRowsToMeetings(<<header>> \o data)
       \/ \E status \in StatusTexts : CallIsDone(status)
       \/ \E item \in InitialSettingsItems, newSettings \in NewSettingsObjects :
             CallUpdateSettings(item, newSettings)
       \/ \E ms \in FeedSnapshots, fromCache \in BOOLEAN, error \in {NULL, MSG_NETWORK},
             cur \in FeedSnapshots, domOk \in BOOLEAN :
             CallHandleSyncResult(SyncResult(ms, fromCache, error), cur, domOk)
       \/ \E meetings \in SeqsUpTo(BannerMeetings, MaxBannerLen) :
             CallGetNextMeeting(meetings)

ParseSpec == InitParse /\ [][NextParse]_vars

-----------------------------------------------------------------------------
(* Claims about the sync engine *)

\* C1 (flap guard): within a session, a snapshot that shows a meeting of the
\* last delivered snapshot regressed from done to neither done nor cancelled is
\* passed to the callback only as the result of the poll's second fetch, that
\* is, only when the verification fetch shows the regression as well.
C1_FlapGuard ==
    callbackEvent.type = "callback" =>
        (callbackEvent.regressed => callbackEvent.fetches = 2)

\* A regression confirmed by the second fetch is delivered
C1_Witness ==
    /\ callbackEvent.type = "callback"
    /\ callbackEvent.regressed
    /\ callbackEvent.fetches = 2

\* C2 (staleness guard) as stated: only the most recently started poll calls back
C2_OnlyNewestPollDelivers ==
    callbackEvent.type = "callback" => callbackEvent.seq = nPolls

\* The staleness guard inside one session: the poll that calls back is the
\* session's most recently started poll
C2_NewestOfItsSession ==
    callbackEvent.type = "callback" =>
        callbackEvent.seq = newestSeq[callbackEvent.session]

\* C3 (no delivery after stop): a poll calls back only while its session's
\* timer is the live one
C3_NoDeliveryAfterStop ==
    callbackEvent.type = "callback" => syncIntervalId = callbackEvent.session

\* C5 (verification fetch fails): when the second fetch of a poll fails, the
\* regression counts as not confirmed: the poll does not hand the callback a
\* snapshot that regresses against the reference snapshot (and so does not
\* replace the reference snapshot by it)
C5_FailedVerifyKeepsPriorData ==
    (pollEvent.type = "poll" /\ pollEvent.phase = "fetch2" /\ pollEvent.fetchFailed)
        => ~(callbackEvent.type = "callback" /\ callbackEvent.regressed)

\* C6 (failures become values): no fetchMeetings() promise of a poll rejects
\* and no exception leaves poll(), whatever the feed, the storage and the
\* callback do
C6_NothingEscapes ==
    pollEvent.type = "poll" => (~pollEvent.fetchRejected /\ ~pollEvent.escaped)

\* A poll whose fetch failed delivered the fallback and caught the callback's throw
C6_Witness ==
    /\ pollEvent.type = "poll"
    /\ pollEvent.fetchFailed
    /\ pollEvent.outcome = "delivered"
    /\ pollEvent.caught

-----------------------------------------------------------------------------
(* Claims about fetchMeetings *)

\* The body, after trimming, begins with "<"
HtmlBody(head) ==
    \E i \in DOMAIN head : head[i] = "<" /\ \A j \in 1..(i - 1) : IsSpace(head[j])

FeedFails(resp) == resp.kind = "reject" \/ ~resp.ok \/ HtmlBody(resp.head)

FailureMessage(resp) ==
    IF resp.kind = "reject" THEN MSG_NETWORK
    ELSE IF ~resp.ok THEN MSG_STATUS
    ELSE MSG_HTML

\* The cached snapshot, when one is stored and can be read and parsed
ExpectedFallback(e) ==
    IF e.storageOk /\ e.before.kind = "json" THEN e.before.value
    ELSE getDemoMeetings(wall)

\* C4 (failure fallback): a failed feed fetch gives error = the failure's
\* message, fromCache = true and meetings = the readable cached snapshot, else
\* the demo meetings; and every result with an error has fromCache = true.
C4_FailureFallback ==
    fetchEvent.type = "fetch" =>
        /\ ~fetchEvent.rejected
        /\ FeedFails(fetchEvent.resp) =>
              /\ fetchEvent.result.error = FailureMessage(fetchEvent.resp)
              /\ fetchEvent.result.fromCache
              /\ fetchEvent.result.meetings = ExpectedFallback(fetchEvent)
        /\ fetchEvent.result.error # NULL => fetchEvent.result.fromCache

\* A failed fetch answered from an empty cached snapshot
C4_Witness ==
    /\ fetchEvent.type = "fetch"
    /\ FeedFails(fetchEvent.resp)
    /\ fetchEvent.storageOk
    /\ fetchEvent.before = JsonItem(<<>>)
    /\ fetchEvent.result.meetings = <<>>

-----------------------------------------------------------------------------
(* Claims about the notification engine *)

\* A clock time "HH:MM" and its minute of the day
TimeParsable(t) ==
    /\ Len(t) = 5
    /\ t[3] = ":"
    /\ \A i \in {1, 2, 4, 5} : IsDigit(t[i])
    /\ DigitValue(t[1]) * 10 + DigitValue(t[2]) < 24
    /\ DigitValue(t[4]) * 10 + DigitValue(t[5]) < 60
ClockMinutes(t) ==
    (DigitValue(t[1]) * 10 + DigitValue(t[2])) * 60 + DigitValue(t[4]) * 10 + DigitValue(t[5])

\* A meeting the engine is to alert for at wall time w
Eligible(m, w) ==
    /\ m.date = formatTodayDate(w)
    /\ TimeParsable(m.time)
    /\ ~isDone(m)
    /\ ~isCancelled(m)

Thresholds == {30, 5}
Published == { currentMeetings[i] : i \in DOMAIN currentMeetings }

\* The wall time at which the window of threshold thr opens for a meeting at
\* time t on the day of w: the window is the two minutes with diff = thr and
\* diff = thr - 1, four ticks
WindowOpens(t, thr, w) == DayOf(w) * 2 * MinutesPerDay + 2 * (ClockMinutes(t) - thr)
InWindow(t, thr, w) == WindowOpens(t, thr, w) <= w /\ w < WindowOpens(t, thr, w) + 4

\* C7 (at most once): since local midnight no (meeting id, threshold) pair has
\* been alerted more than once, whatever ticks and snapshot replacements
\* happened; the two thresholds of one id are alerted independently: at a tick
\* inside a window the pair of that window has been alerted, whether or not
\* the other pair of the id has
C7_AtMostOncePerDay ==
    /\ firedAgain = {}
    /\ alertEvent.type = "tick" =>
           \A m \in Published, thr \in Thresholds :
               (Eligible(m, wall) /\ InWindow(m.time, thr, wall))
                   => <<m.id, thr>> \in firedToday

\* a tick inside the window of a pair that was alerted already makes no call,
\* while the same id has been alerted for both thresholds
C7_Witness ==
    /\ alertEvent.type = "tick"
    /\ alertEvent.alerts = {}
    /\ \E m \in Published :
           /\ Eligible(m, wall)
           /\ InWindow(m.time, 30, wall)
           /\ <<m.id, 30>> \in firedToday
           /\ <<m.id, 5>> \in firedToday

\* C8 (exactly once): when the window of a threshold has closed for an eligible
\* meeting that every tick of the window has read (the ticks come every 30
\* seconds), the pair has been alerted today, and only once
C8_ExactlyOncePerWindow ==
    alertEvent.type = "tick" =>
        \A m \in Published, thr \in Thresholds :
            ( /\ Eligible(m, wall)
              /\ ClockMinutes(m.time) >= thr
              /\ wall >= WindowOpens(m.time, thr, wall) + 4
              /\ age > wall - WindowOpens(m.time, thr, wall) )
            => (<<m.id, thr>> \in firedToday /\ <<m.id, thr>> \notin firedAgain)

\* the 30-minute window of a meeting has just closed after the same id was
\* alerted for its 5-minute threshold earlier that day
C8_Witness ==
    /\ alertEvent.type = "tick"
    /\ \E m \in Published :
           /\ Eligible(m, wall)
           /\ ClockMinutes(m.time) >= 30
           /\ wall >= WindowOpens(m.time, 30, wall) + 4
           /\ age > wall - WindowOpens(m.time, 30, wall)
           /\ <<m.id, 30>> \in firedToday
           /\ <<m.id, 5>> \in firedToday

\* C9 (daily reset): a tick clears the dedup set exactly when it is the first
\* tick of a new local date, a tick on the same date keeps every key, and
\* after every tick the stored date is the current date
C9_DailyReset ==
    alertEvent.type = "tick" =>
        /\ lastNotifiedDate = toDateString(wall)
        /\ alertEvent.cleared <=> alertEvent.newDay
        /\ alertEvent.cleared =>
               triggeredNotifications = { a.key : a \in alertEvent.alerts }
        /\ ~alertEvent.cleared => alertEvent.before \subseteq triggeredNotifications

\* the first tick after midnight has cleared a set that held a key
C9_Witness ==
    /\ alertEvent.type = "tick"
    /\ alertEvent.cleared
    /\ alertEvent.before # {}
    /\ triggeredNotifications # alertEvent.before
    /\ lastNotifiedDate = toDateString(wall)

\* C10 (who is alerted): every triggerAlert call of a tick is for a meeting
\* that is scheduled today, has a parsable time and is neither done (isDone)
\* nor cancelled (isCancelled)
C10_OnlyEligibleAlerted ==
    alertEvent.type = "tick" =>
        \A a \in alertEvent.alerts : Eligible(a.meeting, wall)

-----------------------------------------------------------------------------
(* Claims about audio, toast and push *)

Pending(a) == a.phase \in {"playing", "delay"}

\* C11 (audio is serialized): at most one element is playing at any time, and
\* an element created later has not started to play while an earlier one
\* still has a play or its repeat ahead of it
C11_OneSoundAtATime ==
    /\ Cardinality({ i \in DOMAIN audios : audios[i].phase = "playing" }) <= 1
    /\ \A i, j \in DOMAIN audios :
           (i < j /\ Pending(audios[i])) => audios[j].plays = 0

\* The stored settings turn sound on (true, or absent and so the default)
SoundOn ==
    settingsItem.kind = "json" =>
        settingsItem.object.soundEnabled \in {Undefined, JsBool(TRUE)}
KnownTeams == {T_MUJAHID, T_SHADI}

\* C12 (order of the side effects): a triggerAlert call makes the audio cue
\* first, and only with sound enabled and a team that has a prefix, then the
\* toast, always, then the push notification, only with permission granted
C12_EffectsInOrder ==
    effects.type = "alert" =>
        effects.made =
            (IF SoundOn /\ effects.meeting.team \in KnownTeams THEN <<"audio">> ELSE <<>>)
                \o <<"toast">>
                \o (IF effects.permission = "granted" THEN <<"push">> ELSE <<>>)

\* an alert that made all three effects
C12_Witness ==
    /\ effects.type = "alert"
    /\ effects.made = <<"audio", "toast", "push">>
    /\ audios # <<>>

\* C13 (two plays): an element is never played more than twice, a repeat is
\* pending only after the first play, the second play starts 5 seconds after
\* the first ended, and an element that has finished was played twice
C13_PlayedTwice ==
    \A i \in DOMAIN audios :
        LET a == audios[i]
        IN  /\ a.plays <= 2
            /\ a.phase = "delay" => a.plays = 1
            /\ a.plays = 2 => a.start2 = a.ended1 + 5
            /\ a.phase = "ended" => a.plays = 2

\* an element has finished its second play
C13_Witness ==
    \E i \in DOMAIN audios :
        /\ audios[i].phase = "ended"
        /\ audios[i].plays = 2
        /\ audios[i].start2 = audios[i].ended1 + 5

-----------------------------------------------------------------------------
(* Claims about the settings *)

\* C14 (interval floor): whatever refreshInterval is stored, the poll timer a
\* running sync session was created with has a period of at least 15 seconds
C14_IntervalFloor == syncIntervalId # 0 => pollDelay >= 15000

\* C15 (stop clears both timers): once the sync engine has been stopped, and
\* as long as it is not started again, neither the poll timer starts a poll
\* nor the notification loop's 30-second timer runs a tick
C15_StopClearsBothTimers ==
    [][(nSessions > 0 /\ syncIntervalId = 0 /\ syncIntervalId' = 0)
           => (nPolls' = nPolls /\ wall' = wall)]_vars

\* the poll timer alone does stop
C15_PollTimerStops ==
    [][(nSessions > 0 /\ syncIntervalId = 0 /\ syncIntervalId' = 0)
           => nPolls' = nPolls]_vars

-----------------------------------------------------------------------------
(* Claims about fetchCSV *)

\* C16 (HTML instead of CSV): a response with success status whose trimmed
\* body begins with "<" is not parsed: fetchMeetings resolves with an error,
\* fromCache = true and the fallback meetings, and the stored cache is as before
C16_HtmlIsNotParsed ==
    ( /\ fetchEvent.type = "fetch"
      /\ fetchEvent.resp.kind = "response"
      /\ fetchEvent.resp.ok
      /\ HtmlBody(fetchEvent.resp.head) )
    => /\ ~fetchEvent.rejected
       /\ fetchEvent.result.error = MSG_HTML
       /\ fetchEvent.result.fromCache
       /\ fetchEvent.result.meetings = ExpectedFallback(fetchEvent)
       /\ storedData = fetchEvent.before

\* an HTML page with status 200 answered from a cached snapshot with a meeting
C16_Witness ==
    /\ fetchEvent.type = "fetch"
    /\ fetchEvent.resp.kind = "response"
    /\ fetchEvent.resp.ok
    /\ HtmlBody(fetchEvent.resp.head)
    /\ fetchEvent.storageOk
    /\ fetchEvent.before.kind = "json"
    /\ Len(fetchEvent.result.meetings) > 0
    /\ storedData = fetchEvent.before

\* The sheet id of the stored settings, when it is a string
ConfiguredSheetId ==
    IF settingsItem.kind = "json" /\ settingsItem.object.sheetId.t = "string"
    THEN settingsItem.object.sheetId.s
    ELSE <<>>
HasPublishPrefix(k) ==
    /\ Len(k) >= 6
    /\ <<k[1], k[2], k[3], k[4], k[5], k[6]>> = <<"2", "P", "A", "C", "X", "-">>

\* C17 (request key): the key of the request is the configured sheet id
\* exactly when that id starts with "2PACX-", and the default key otherwise
C17_RequestKey ==
    fetchEvent.type = "fetch" =>
        /\ fetchEvent.key = ConfiguredSheetId <=> HasPublishPrefix(ConfiguredSheetId)
        /\ ~HasPublishPrefix(ConfiguredSheetId) => fetchEvent.key = DEFAULT_PUBLISH_KEY

\* a request made with the configured key
C17_Witness ==
    /\ fetchEvent.type = "fetch"
    /\ fetchEvent.key = K_2PACX_AB
    /\ fetchEvent.key # DEFAULT_PUBLISH_KEY

-----------------------------------------------------------------------------
(* Claims about the parsing functions *)

ParsedRow == call.result = <<call.row>>

\* C18 as stated (parseCSV round trip): for every row of fields, the line made
\* of the fields between double quotes, embedded quotes doubled, joined with
\* commas, is parsed by parseCSV into exactly the original fields.
C18_RoundTrip == call.type = "parseCSV" => ParsedRow

\* a field parseCSV gives back as written: no white space at either end and no
\* line break inside
Untrimmed(f) == Trim(f) = f /\ \A i \in DOMAIN f : f[i] # "\n"

\* C18 amended (parseCSV round trip): for every row of fields none of which
\* begins or ends with white space or contains a line break, the line made of
\* the fields between double quotes, embedded quotes doubled, joined with
\* commas, is parsed by parseCSV into exactly the original fields.
C18_RoundTripOfUntrimmedFields ==
    (call.type = "parseCSV" /\ \A k \in DOMAIN call.row : Untrimmed(call.row[k]))
        => ParsedRow

\* a row of two untrimmed fields, one with a comma and a quote, parsed back
C18_Witness ==
    /\ call.type = "parseCSV"
    /\ call.row = << <<",", "\"">>, <<"\"", "a">> >>
    /\ ParsedRow

\* the last date of column 0 among the rows 1..i, empty when there is none
RunningDate(rows, i) ==
    LET dated == {j \in 1..i : IsDateLike(DateField(rows[j]))}
    IN  IF dated = {} THEN <<>>
        ELSE DateField(rows[CHOOSE j \in dated : \A k \in dated : k <= j])

\* C19 (forwardFillDates): the output has as many rows as the input; every
\* output row has the running date in column 0 and the input row's columns
\* 1.. after it; and from the first row with a date in column 0 on, no output
\* row has an empty column 0.
C19_ForwardFill ==
    call.type = "forwardFillDates" =>
        LET rows == call.rows
            out  == call.result
        IN  /\ Len(out) = Len(rows)
            /\ \A i \in DOMAIN rows :
                  /\ Len(out[i]) >= 1
                  /\ out[i][1] = RunningDate(rows, i)
                  /\ SubSeq(out[i], 2, Len(out[i])) = SubSeq(rows[i], 2, Len(rows[i]))
                  /\ (\E j \in 1..i : IsDateLike(DateField(rows[j]))) => out[i][1] # <<>>

\* a date, a row without one that inherits it, and a second date after them
C19_Witness ==
    /\ call.type = "forwardFillDates"
    /\ call.rows = << <<D_1_2, <<"x">> >>, << <<>>, <<"x">> >>, <<D_3_4>> >>
    /\ call.result = << <<D_1_2, <<"x">> >>, <<D_1_2, <<"x">> >>, <<D_3_4>> >>

PmIndicators == {"pm", "PM", "meem", "masaa"}
AmIndicators == {"am", "AM", "sad", "sabah"}

\* C20 (parseTimeStr): for H:MM without indicator an hour below 10 becomes
\* h + 12 and 10, 11 and 12 stay; with a PM indicator an hour below 12 becomes
\* h + 12 and 12 stays; with an AM indicator 12 becomes 0; the result is the
\* two-digit hour, a colon and the minutes.
C20_HourConversion ==
    call.type = "parseTimeStr" =>
        LET h    == call.h
            Is(k) == call.result = Pad2(k) \o <<":">> \o call.mm
        IN  /\ (call.ind = "none" /\ h < 10) => Is(h + 12)
            /\ (call.ind = "none" /\ h \in {10, 11, 12}) => Is(h)
            /\ (call.ind \in PmIndicators /\ h < 12) => Is(h + 12)
            /\ (call.ind \in PmIndicators /\ h = 12) => Is(12)
            /\ (call.ind \in AmIndicators /\ h = 12) => Is(0)

\* "12:00 am" has become "00:00"
C20_Witness ==
    /\ call.type = "parseTimeStr"
    /\ call.timeStr = <<"1","2",":","0","0"," ","a","m">>
    /\ call.result = <<"0","0",":","0","0">>

-----------------------------------------------------------------------------
(* Claims about mapRowsToMeetings and normalizeDate *)

\* HH:MM with hour 00-23 and minute 00-59
ValidTime(t) ==
    /\ Len(t) = 5
    /\ t[3] = ":"
    /\ \A i \in {1, 2, 4, 5} : IsDigit(t[i])
    /\ DecimalValue(SubSeq(t, 1, 2)) <= 23
    /\ DecimalValue(SubSeq(t, 4, 5)) <= 59

\* C21 (time field): every Meeting that mapRowsToMeetings produces has a time
\* that is a valid 24-hour HH:MM text or the empty text.
C21_TimeIsValidOrEmpty ==
    call.type = "mapRowsToMeetings" =>
        \A k \in DOMAIN call.result :
            call.result[k].time = <<>> \/ ValidTime(call.result[k].time)

\* the text the claim gives for a date text of these parts
YearFirst(p0, p1, p2) == p0 \o <<"/">> \o PadStart2(p1) \o <<"/">> \o PadStart2(p2)
ExpectedDate(parts, dateStr) ==
    IF Len(parts) = 3
    THEN LET p0 == Trim(parts[1])
             p1 == Trim(parts[2])
             p2 == Trim(parts[3])
         IN  IF Len(p0) = 4 THEN YearFirst(p0, p1, p2)
             ELSE IF Len(p2) = 4 THEN YearFirst(p2, p1, p0)
             ELSE Trim(dateStr)
    ELSE Trim(dateStr)

\* C22 (normalizeDate): a text of exactly three parts whose first part has 4
\* characters gives YYYY/MM/DD with month and day zero-padded, otherwise one
\* whose last part has 4 characters is read as D/M/YYYY and reordered; every
\* other text is returned trimmed; and normalizing the result again gives the
\* same text.
C22_NormalizeDate ==
    call.type = "normalizeDate" =>
        /\ call.result = ExpectedDate(call.parts, call.dateStr)
        /\ call.again = call.result

\* "5/1/2025" has become "2025/01/05"
C22_Witness ==
    /\ call.type = "normalizeDate"
    /\ call.dateStr = D_5_1_2025
    /\ call.result = <<"2","0","2","5","/","0","1","/","0","5">>

Range(f) == { f[k] : k \in DOMAIN f }

\* the columns after the date that hold something
Populated(row) == { k \in 1..(Len(row) - 1) : Cell(row, k) # <<>> }

\* C23 (retained rows): no Meeting is made from row 0 or carries its project;
\* the row of every Meeting has a non-empty project or a non-empty time cell
\* after trimming; and a row with nothing but a date is the row of no Meeting.
C23_RetainedRows ==
    call.type = "mapRowsToMeetings" =>
        LET rows == call.rows
            out  == call.result
            src  == call.sources
        IN  /\ Len(src) = Len(out)
            /\ \A k \in DOMAIN out :
                  /\ src[k] \in 2..Len(rows)
                  /\ out[k].project = Cell(rows[src[k]], 1)
                  /\ out[k].project # Cell(rows[1], 1)
                  /\ Cell(rows[src[k]], 1) # <<>> \/ Cell(rows[src[k]], 3) # <<>>
            /\ \A i \in DOMAIN rows : Populated(rows[i]) = {} => i \notin Range(src)

\* row 0 reads like a meeting, and only the row after it has become one
C23_Witness ==
    /\ call.type = "mapRowsToMeetings"
    /\ call.rows = << << D_5_1_2025, <<"H">>, <<"T">>, C_8_00 >>,
                      << D_5_1_2025, <<"P">>, <<"T">>, C_8_00 >>,
                      << D_5_1_2025, <<>>, <<>>, <<>> >> >>
    /\ call.sources = <<2>>
    /\ call.result[1].project = <<"P">>

\* the row at position i (from 2) is a date header after the forward fill
DateHeader(rows, i) ==
    LET filled == RunningDate(SubSeq(rows, 2, Len(rows)), i - 1)
    IN  /\ filled # <<>>
        /\ \E j \in DOMAIN filled : IsDigit(filled[j])
        /\ Cardinality(Populated(rows[i])) <= 1

C25_SequentialIds ==
    call.type = "mapRowsToMeetings" =>
        LET out == call.result
        IN  /\ \A k \in DOMAIN out : out[k].id = "m-" \o ToString(k)
            /\ \A j, k \in DOMAIN out : out[j].id = out[k].id => j = k

\* the first data row was skipped and the second has the id "m-1"
C25_Witness ==
    /\ call.type = "mapRowsToMeetings"
    /\ call.sources = <<3>>
    /\ call.result[1].id = "m-1"

\* the patterns of the claim in a status text
MatchesNegative(status) == TestAnyI(NotDonePatterns, status)
MatchesPositive(status) == TestAnyI(DonePatterns, status)

\* C26 (done classification): isDone is false for every status that matches
\* the negative pattern, whatever else it contains, true exactly for a status
\* that matches a positive pattern and no negative one, and false for the
\* empty status.
C26_DoneClassification ==
    call.type = "isDone" =>
        /\ MatchesNegative(call.status) => ~call.result
        /\ call.result <=> (MatchesPositive(call.status) /\ ~MatchesNegative(call.status))
        /\ Trim(call.status) = <<>> => ~call.result

\* "lam yatim" contains "tamm" and is not done
C26_Witness ==
    /\ call.type = "isDone"
    /\ call.status = S_LAM_YATIM
    /\ MatchesPositive(call.status)
    /\ ~call.result

\* C27 (storage failures): when writing the snapshot throws, fetchMeetings
\* still resolves with the fresh meetings, fromCache = false and error = null;
\* when the feed fails and the cached snapshot cannot be read or parsed, it
\* resolves with the demo meetings.
C27_StorageFailuresAreNotFatal ==
    fetchEvent.type = "fetch" =>
        /\ ~fetchEvent.rejected
        /\ (~FeedFails(fetchEvent.resp) /\ ~fetchEvent.storageOk) =>
              fetchEvent.result = SyncResult(fetchEvent.resp.meetings, FALSE, NULL)
        /\ (FeedFails(fetchEvent.resp)
              /\ (~fetchEvent.storageOk \/ fetchEvent.before.kind = "corrupt")) =>
              fetchEvent.result.meetings = getDemoMeetings(wall)

\* a fresh snapshot returned although it could not be written over the cache
C27_Witness ==
    /\ fetchEvent.type = "fetch"
    /\ ~FeedFails(fetchEvent.resp)
    /\ ~fetchEvent.storageOk
    /\ fetchEvent.before.kind = "json"
    /\ storedData = fetchEvent.before
    /\ fetchEvent.result.meetings # fetchEvent.before.value
    /\ ~fetchEvent.result.fromCache

\* C28 (settings): getSettings gives every key a value: the stored one when
\* the blob has the key, the default when the key is missing or the blob is
\* absent or corrupt; and after updateSettings every key it was not given has
\* the value it had, and a given key has the given value.
C28_SettingsMerge ==
    call.type = "updateSettings" =>
        \A k \in SettingsKeys :
            /\ call.before[k] # Undefined
            /\ call.before[k] =
                  (IF call.item.kind = "json" /\ call.item.object[k] # Undefined
                   THEN call.item.object[k] ELSE DEFAULT_SETTINGS[k])
            /\ k \notin DOMAIN call.newSettings => call.after[k] = call.before[k]
            /\ (k \in DOMAIN call.newSettings /\ call.newSettings[k] # JsNumNaN)
                  => call.after[k] = call.newSettings[k]

\* only the sound flag was given, and a stored interval was preserved
C28_Witness ==
    /\ call.type = "updateSettings"
    /\ DOMAIN call.newSettings = {"soundEnabled"}
    /\ call.item.kind = "json"
    /\ call.before.refreshInterval = JsNum(500)
    /\ call.after.refreshInterval = JsNum(500)
    /\ call.after.soundEnabled = JsBool(FALSE)
    /\ call.before.soundEnabled = JsBool(TRUE)

-----------------------------------------------------------------------------
(* Claims about the cache and the sync engine *)

\* C29 (stale polls): a step in which a poll finds itself superseded leaves
\* the session's last-known snapshot and the persisted cache as they were.
C29_StalePollChangesNothing ==
    [][(pollEvent'.type = "poll" /\ pollEvent'.outcome = "stale")
          => (lastKnownMeetings' = lastKnownMeetings /\ storedData' = storedData)]_vars

\* the half of C29 that holds: a superseded poll leaves the last-known snapshot
C29_StalePollKeepsLastKnown ==
    [][(pollEvent'.type = "poll" /\ pollEvent'.outcome = "stale")
          => lastKnownMeetings' = lastKnownMeetings]_vars

\* C30 (cache written on delivery only): every step that changes the persisted
\* cache is a delivery to the callback, and the cache then holds the delivered
\* snapshot.
C30_CacheWrittenOnDeliveryOnly ==
    [][storedData' # storedData
          => /\ callbackEvent'.type = "callback"
             /\ storedData' = JsonItem(lastKnownMeetings'[callbackEvent'.session])]_vars

-----------------------------------------------------------------------------
(* Claims about the flap guard and the published snapshot *)

\* C31 (unconfirmed regression): when the verification fetch of a poll does
\* not show the regression any more, the poll ends without calling back and
\* leaves lastKnownMeetings (and so the published snapshot) as it was, so the
\* next poll is compared against the same accepted snapshot.
C31_UnconfirmedRegressionChangesNothing ==
    [][(pollEvent'.type = "poll" /\ pollEvent'.outcome = "flap")
          => /\ callbackEvent'.type # "callback"
             /\ lastKnownMeetings' = lastKnownMeetings
             /\ currentMeetings' = currentMeetings]_vars

\* A verification fetch did not confirm the regression against a reference
\* snapshot that holds a done meeting
C31_Witness ==
    /\ pollEvent.type = "poll"
    /\ pollEvent.phase = "fetch2"
    /\ pollEvent.outcome = "flap"
    /\ ~pollEvent.regressed
    /\ \E i \in DOMAIN lastKnownMeetings[pollEvent.session] :
           isDone(lastKnownMeetings[pollEvent.session][i])

\* No poll is anywhere but in its first fetch, in the delay before its
\* second fetch, or in its second fetch; a second fetch never starts a third
AtMostTwoFetches ==
    /\ \A p \in polls : p.pc \in {"fetch1", "sleep", "fetch2"}
    /\ (pollEvent.type = "poll" /\ pollEvent.phase = "fetch2")
           => pollEvent.outcome # "verify"

\* C32 as stated: a poll performs at most two fetches, and it performs the
\* second (verification) fetch if and only if some meeting of the incoming
\* snapshot carries the id of a meeting that is done in lastKnownMeetings and
\* is itself neither done nor cancelled; in every other case (done to
\* cancelled, removed ids, an empty snapshot on either side) the poll delivers
\* after its single fetch.
C32_SecondFetchIffRegressed ==
    /\ AtMostTwoFetches
    /\ (pollEvent.type = "poll" /\ pollEvent.phase = "fetch1")
           => /\ (pollEvent.outcome = "verify") <=> pollEvent.regressed
              /\ ~pollEvent.regressed
                    => /\ pollEvent.outcome = "delivered"
                       /\ callbackEvent.type = "callback"
                       /\ callbackEvent.fetches = 1

\* C32 for the polls that were not superseded while their first fetch was
\* under way: the same statement, and a superseded poll ends after its single
\* fetch whatever the snapshot shows.
C32_SecondFetchIffRegressedUnlessStale ==
    /\ AtMostTwoFetches
    /\ (pollEvent.type = "poll" /\ pollEvent.phase = "fetch1")
           => IF pollEvent.outcome = "stale"
              THEN callbackEvent.type # "callback"
              ELSE /\ (pollEvent.outcome = "verify") <=> pollEvent.regressed
                   /\ ~pollEvent.regressed
                         => /\ pollEvent.outcome = "delivered"
                            /\ callbackEvent.type = "callback"
                            /\ callbackEvent.fetches = 1

\* A first fetch showed a regression and the poll went on to verify it
C32_Witness ==
    /\ pollEvent.type = "poll"
    /\ pollEvent.phase = "fetch1"
    /\ pollEvent.outcome = "verify"
    /\ pollEvent.regressed
    /\ \E p \in polls : p.seq = pollEvent.seq /\ p.pc = "sleep"

-----------------------------------------------------------------------------
(* A genuine reversion: the sheet keeps showing a delivered done meeting as pending *)

X_DONE    == <<FeedMeeting(1, S_TAMM)>>
X_PENDING == <<FeedMeeting(1, S_EMPTY)>>

\* Every fetch succeeds and shows meeting m-1 as pending
ServedPending == NetResponse("response", TRUE, CsvHead, X_PENDING)

\* The first poll of session 1 has delivered m-1 as done; polls are counted
\* from here on
InitReversion ==
    /\ storedData \in { NoItem, JsonItem(X_DONE) }
    /\ clock = 1
    /\ syncIntervalId = 1
    /\ timers = [LoopRunning EXCEPT !.sync = {1}]
    /\ nSessions = 1
    /\ latestRequestTime = [s \in Sessions |-> IF s = 1 THEN 1 ELSE 0]
    /\ lastKnownMeetings = [s \in Sessions |-> IF s = 1 THEN X_DONE ELSE <<>>]
    /\ polls = {}
    /\ nPolls = 0
    /\ nManual = 0
    /\ newestSeq = [s \in Sessions |-> 0]
    /\ currentMeetings = X_DONE
    /\ fetchEvent = NoEvent
    /\ callbackEvent = NoEvent
    /\ pollEvent = NoEvent
    /\ InitAlertAt(WallStart)
    /\ InitApp

FirstFetchSucceeds ==
    \E p \in polls, storageOk \in BOOLEAN, domOk \in BOOLEAN :
        FirstFetchResolves(p, ServedPending, storageOk, domOk)

VerifyDelayDone == \E p \in polls : VerifyDelayElapses(p)

VerifyFetchSucceeds ==
    \E p \in polls, storageOk \in BOOLEAN, domOk \in BOOLEAN :
        VerifyFetchResolves(p, ServedPending, storageOk, domOk)

NextReversion ==
    \/ startAutoSync
    \/ stopAutoSync
    \/ TimerPoll
    \/ FirstFetchSucceeds
    \/ VerifyDelayDone
    \/ VerifyFetchSucceeds

\* The steps of NextReversion in which a poll's first fetch resolves: the poll
\* ends, or goes on to wait for its verification
FirstFetchReturns ==
    \E p \in polls :
        /\ p.pc = "fetch1"
        /\ \/ polls' = polls \ {p}
           \/ polls' = (polls \ {p}) \cup {[p EXCEPT !.pc = "sleep"]}

\* The steps of NextReversion in which a poll's verification fetch resolves
VerifyFetchReturns ==
    \E p \in polls : p.pc = "fetch2" /\ polls' = polls \ {p}

\* The network answers every fetch and the 500 ms timeout fires
ReversionSpec ==
    /\ InitReversion
    /\ [][NextReversion]_vars
    /\ WF_polls(FirstFetchReturns)
    /\ WF_polls(VerifyDelayDone)
    /\ WF_polls(VerifyFetchReturns)

PollSeqs == 1..MaxPolls

\* Poll n is waiting to verify a regression it detected
Verifying(n) == \E p \in polls : p.seq = n /\ p.pc \in {"sleep", "fetch2"}

\* Poll n hands the regressed snapshot to the callback after its second fetch
DeliversVerified(n) ==
    /\ callbackEvent.type = "callback"
    /\ callbackEvent.seq = n
    /\ callbackEvent.fetches = 2
    /\ callbackEvent.regressed
    /\ lastKnownMeetings[callbackEvent.session] = X_PENDING

\* Poll n is dropped as superseded when its verification fetch resolves
SupersededInVerify(n) ==
    /\ pollEvent.type = "poll"
    /\ pollEvent.seq = n
    /\ pollEvent.phase = "fetch2"
    /\ pollEvent.outcome = "stale"

\* In a session that has accepted the pending snapshot, a poll's first fetch
\* ends in a delivery, not in a verification, unless the poll was superseded
LaterPollsDeliver ==
    [][(/\ pollEvent'.type = "poll"
        /\ pollEvent'.phase = "fetch1"
        /\ lastKnownMeetings[pollEvent'.session] = X_PENDING
        /\ pollEvent'.outcome # "stale")
          => /\ pollEvent'.outcome = "delivered"
             /\ callbackEvent'.type = "callback"
             /\ callbackEvent'.fetches = 1]_vars

-----------------------------------------------------------------------------
(* Claims about the snapshot the page publishes *)

\* C34 (reference snapshot = published snapshot): after every callback of the
\* sync engine, the lastKnownMeetings of the calling session equals
\* currentMeetings, whatever the fetches returned.
C34_ReferenceEqualsPublished ==
    callbackEvent.type = "callback"
        => lastKnownMeetings[callbackEvent.session] = currentMeetings

\* C35 (handleSyncResult): currentMeetings is left as it was when the result
\* carries an error, and when an error-free result that is not from the cache
\* has no meetings while currentMeetings has some; in every other case
\* currentMeetings becomes exactly the result's meetings.
C35_PublishedSnapshot ==
    call.type = "handleSyncResult" =>
        LET r == call.result
            kept == \/ r.error # NULL
                    \/ /\ ~r.fromCache
                       /\ r.meetings = <<>>
                       /\ call.before # <<>>
        IN  call.after = IF kept THEN call.before ELSE r.meetings

\* An empty snapshot straight from the sheet did not clear a non-empty page
C35_Witness ==
    /\ call.type = "handleSyncResult"
    /\ call.result.error = NULL
    /\ ~call.result.fromCache
    /\ call.result.meetings = <<>>
    /\ call.before # <<>>
    /\ call.after = call.before

\* C36 (polls and the sync button interleaved): currentMeetings never takes a
\* meeting from done to neither done nor cancelled unless two consecutive
\* fetches of one poll both showed the regression (and a manual fetch never
\* overwrites the result of a fetch that started later).
C36_NoUnverifiedRegressionOnPage ==
    [][Regressed(currentMeetings, currentMeetings')
          => /\ callbackEvent'.type = "callback"
             /\ callbackEvent'.fetches = 2]_vars

-----------------------------------------------------------------------------
(* Claims about the alert thresholds and the timers *)

\* Minutes since local midnight of an HH:MM time
ScheduledMinutes(time) ==
    LET parts == Split(time, ":")
    IN  Number(parts[1]).value * 60 + Number(parts[2]).value

\* C37 (threshold windows): a tick emits a 30-minute alert for a meeting only
\* when 29 <= diff <= 30 and a 5-minute alert only when 4 <= diff <= 5, where
\* diff is the meeting's scheduled minutes minus the current minutes since
\* local midnight; at every other diff (negative ones, windows that passed
\* before the engine started) no alert is emitted.
C37_AlertsOnlyInsideWindows ==
    alertEvent.type = "tick" =>
        \A a \in alertEvent.alerts :
            /\ a.diff = ScheduledMinutes(a.meeting.time) - NowMinutes(wall)
            /\ \/ a.minutesType = 30 /\ a.diff >= 29 /\ a.diff <= 30
               \/ a.minutesType = 5 /\ a.diff >= 4 /\ a.diff <= 5

\* A tick alerts for the meeting 30 minutes ahead and not for the one 3
\* minutes ahead
C37_Witness ==
    /\ alertEvent.type = "tick"
    /\ \E a \in alertEvent.alerts : a.minutesType = 30 /\ a.diff = 30
    /\ \E i \in DOMAIN currentMeetings :
           /\ ScheduledMinutes(currentMeetings[i].time) - NowMinutes(wall) = 3
           /\ \A a \in alertEvent.alerts : a.meeting.id # currentMeetings[i].id

\* The step is a stopAutoSync call: none of the other actions of the timer
\* loops has left its mark
IsStopStep ==
    /\ nSessions' = nSessions
    /\ nPolls' = nPolls
    /\ wall' = wall
    /\ timers'.made = timers.made

\* The polls a step has started
Started == polls' \ polls

\* C38 (one timer per loop): after any sequence of startAutoSync,
\* stopAutoSync and startNotificationLoop calls at most one poll timer and at
\* most one alert timer are live; startAutoSync starts exactly one poll at
\* once, and a stopAutoSync after a stopAutoSync changes nothing.
C38_OneTimerPerLoop ==
    /\ [](/\ Cardinality(timers.sync) <= 1
          /\ Cardinality(timers.alert) <= 1
          /\ timers.sync = IF syncIntervalId = 0 THEN {} ELSE {syncIntervalId}
          /\ timers.alert = {timers.timerInterval})
    /\ [][nSessions' # nSessions
             => /\ Cardinality(Started) = 1
                /\ \A p \in Started :
                       p.session = syncIntervalId' /\ p.pc = "fetch1" /\ p.thisRequestTime = clock
                /\ clock' = clock]_vars
    /\ [][(IsStopStep /\ syncIntervalId = 0)
             => UNCHANGED <<syncIntervalId, timers, polls, latestRequestTime,
                            lastKnownMeetings>>]_vars

\* Both loops were restarted: only the second timer of each is live
C38_Witness ==
    /\ nSessions = 2
    /\ timers.sync = {2}
    /\ timers.made = 2
    /\ timers.alert = {2}

-----------------------------------------------------------------------------
(* Claims about the countdown banner *)

\* The time of day of a meeting with an HH:MM time
MinutesOf(m) ==
    DecimalValue(SubSeq(m.time, 1, 2)) * 60 + DecimalValue(SubSeq(m.time, 4, 5))

\* Dated today, neither done nor cancelled
PendingToday(m) == m.date = formatTodayDate(wall) /\ ~isDone(m) /\ ~isCancelled(m)

\* Pending today and not yet past
FuturePending(m) ==
    PendingToday(m) /\ ValidTime(m.time) /\ MinutesOf(m) >= NowMinutes(wall)

\* Pending today and past by at most 60 minutes
RecentlyOverdue(m) ==
    /\ PendingToday(m)
    /\ ValidTime(m.time)
    /\ MinutesOf(m) < NowMinutes(wall)
    /\ MinutesOf(m) >= NowMinutes(wall) - 60

Elements(seq) == { seq[i] : i \in DOMAIN seq }

\* C39 (next meeting): getNextMeeting returns only meetings dated today that
\* are neither done nor cancelled, all with one time; it returns the earliest
\* future batch whenever a future pending meeting exists, an overdue batch
\* (isOverdue true) only when none exists and only of meetings at most 60
\* minutes past, and null otherwise.
C39_NextMeeting ==
    call.type = "getNextMeeting" =>
        LET all     == Elements(call.meetings)
            res     == call.result
            future  == { m \in all : FuturePending(m) }
            overdue == { m \in all : RecentlyOverdue(m) }
        IN  /\ ~res.isNull
                 => /\ res.meetings # <<>>
                    /\ \A m \in Elements(res.meetings) :
                           m \in all /\ PendingToday(m) /\ m.time = res.time
            /\ future # {}
                 => /\ ~res.isNull
                    /\ ~res.isOverdue
                    /\ Elements(res.meetings) = { m \in future : m.time = res.time }
                    /\ \A m \in future : MinutesOf(m) >= res.totalMinutes
            /\ (~res.isNull /\ res.isOverdue)
                 => /\ future = {}
                    /\ Elements(res.meetings) \subseteq overdue
            /\ (future = {} /\ overdue # {}) => (~res.isNull /\ res.isOverdue)
            /\ (future = {} /\ overdue = {}) => res.isNull

\* Two meetings share the earliest future time and are returned together,
\* ahead of a later one; a cancelled meeting at that time is left out
C39_Witness ==
    /\ call.type = "getNextMeeting"
    /\ ~call.result.isNull
    /\ ~call.result.isOverdue
    /\ Len(call.result.meetings) = 2
    /\ \E i \in DOMAIN call.meetings :
           isCancelled(call.meetings[i]) /\ call.meetings[i].time = call.result.time
====
